---- MODULE Spec2Model ----
(***************************************************************************)
(* A model of the recordings-copy tool (src/bw_copy_tool.py): the retrying *)
(* command runner run_with_retry, the ProgressBar tracker, the stream loop *)
(* that parses the transfer command's output, and the copy jobs            *)
(* copy_folder, copy_logs and copy_bags built from them.                   *)
(*                                                                         *)
(* Time is counted in ticks of half a second (the scp loop sleeps 0.5 s).  *)
(* Sizes are bytes.                                                        *)
(***************************************************************************)
EXTENDS Integers, Sequences, FiniteSets, TLC

VARIABLES
    \* ---- run_with_retry's frame ----
    rpc,            \* "idle" | "loop" | "returned" | "raised"
    max_retries,    \* parameter max_retries
    delay,          \* parameter delay, in seconds
    attempt,        \* the loop variable of "for attempt in range(max_retries)"
    events,         \* what the call did so far: sleeps and command invocations, in order
    result,         \* the local "result": the last CompletedProcess, or NoResult
    \* ---- the wall clock ----
    now,            \* time.time(), in ticks
    \* ---- one copy job (copy_folder / copy_logs / copy_bags) ----
    kind,           \* "folder" | "logs" | "bags" | "none" (no job: the retry harness)
    pc,             \* the job's position in its function
    feed,           \* the lines the transfer command may print (the environment's repertoire)
    destExists,     \* base_local_path.exists() when the job starts
    dirs,           \* the directories that exist next to the destination, by name
    prompts,        \* answers check_folder_overwrite turned down (it asked again)
    decision,       \* overwrite_action, the value check_folder_overwrite returned
    destName,       \* last component of base_local_path
    removed,        \* shutil.rmtree was called on the existing destination
    stale,          \* the destination directory still holds a tree from before the job
    speedOpt,       \* the global SPEED_OPTIMIZATION
    method,         \* fastest_method
    sizeFailed,     \* the sizing command failed on all retries, or its output did not parse
    launchOK,       \* the shell could start the transfer tool
    launches,       \* number of Popen calls of the transfer command
    linesRead,      \* lines of the transfer's output consumed so far
    lastLine,       \* the line the stream loop processed last
    signal,         \* what that line made the loop hand to the tracker
    polls,          \* iterations of the scp wait loop so far
    exitCode,       \* the transfer process's exit code ("result" / "exit_code")
    ret,            \* the job's return value: "none" while running, "True", "False"
    log,            \* records appended to the log file by this job
    \* ---- the job's ProgressBar ----
    total_size, current_size, start_time, last_update,
    renders,        \* status lines written by display()
    lastRender,     \* the clock at the last written status line (-1: none yet)
    finished,       \* calls of finish()
    shown,          \* the status line display() wrote last
    summary,        \* the closing line finish() printed
    \* ---- test_copy_methods ----
    bench,          \* the candidate runs of the call in progress: tool, exit code, time
    scratch,        \* the directory ./speed_test_temp exists
    benchmarks,     \* calls of test_copy_methods
    measured,       \* the two times the last call printed ("Rsync: ... seconds", "SCP: ...")
    \* ---- the transfer process and its output pipe ----
    tool,           \* the tool of the transfer command given to Popen ("none": no Popen yet)
    alive,          \* transfer processes that were started and have not exited
    unread,         \* lines the process wrote to the pipe that nobody has read
    blocked,        \* the process is blocked in a write to the full pipe
    \* ---- main's loop over the selected recordings ----
    mpc,            \* main's position: "off" (a job on its own) | "begin" | "menu" | "actions" | "ssh" |
                    \* "listing" | "loop" | "copying" | "confirm" | "delete" | "deleting" | "job" |
                    \* "returned" | "raised"
    queue,          \* the selected (name, size) pairs not yet handled
    item,           \* the pair the loop is handling
    free,           \* what get_local_free_space() returned for it, in hundreds of bytes
    copied_folders, failed_folders,
    \* ---- main's session and menus ----
    session_operations, successful_operations,
    data_type,      \* the main menu's choice that opened the action menu
    purpose,        \* what the folder list was asked for: "copy" | "list" | "delete"
    answer,         \* what the user typed at the delete confirmation, character by character
    delq,           \* the folders the delete loop has not handled yet
    deleted_folders,
    \* ---- auto_git_push's watcher (src/auto_git_push.py) ----
    wpc,            \* "off" | "watch"
    tree,           \* st_mtime_ns of each file at the watcher's last walk (0: no such file)
    last_hash, last_change,
    pushes,         \* calls of autopush()
    lastDetect,     \* the clock when the loop last saw a different hash (-1: never)
    changed         \* the loop saw a different hash since the last autopush()

retryVars == <<rpc, max_retries, delay, attempt, events, result>>
barVars   == <<total_size, current_size, start_time, last_update, renders, lastRender, finished,
               shown, summary>>
benchVars == <<bench, scratch, benchmarks, measured>>
procVars  == <<tool, alive, unread, blocked>>
jobVars   == <<kind, pc, feed, destExists, dirs, prompts, decision, destName, removed, speedOpt, method,
               sizeFailed, launchOK, launches, linesRead, lastLine, signal, polls,
               exitCode, ret, log, benchVars, procVars>>
mainVars  == <<mpc, queue, item, free, copied_folders, failed_folders>>
destVars  == <<stale>>
sessionVars == <<session_operations, successful_operations, data_type, purpose, answer, delq,
                 deleted_folders>>
watchVars == <<wpc, tree, last_hash, last_change, pushes, lastDetect, changed>>
vars      == <<retryVars, now, jobVars, barVars, mainVars, sessionVars, watchVars, destVars>>

(***************************************************************************)
(* Program constants and the bounds of the model.                          *)
(***************************************************************************)
MAX_RETRIES == 3
RETRY_DELAY == 3
TicksPerSecond == 2
MiB == 1048576

MaxRetriesArg == 4      \* run_with_retry is tried with max_retries in 0..MaxRetriesArg
MaxDelayArg == 3        \* and delay in 0..MaxDelayArg seconds
StartClock == 10        \* the clock when the program starts (any time after the epoch)

ExitCodes == {0, 1, 2}  \* a command's exit status: 0, or one of two failures

NoResult == [idx |-> 0, rc |-> -1]   \* "result" before its first assignment

(***************************************************************************)
(* run_with_retry                                                          *)
(***************************************************************************)
\* for attempt in range(max_retries): the loop body runs while this holds
InRange_off_by_one(a, n) == a <= n
InRange(a, n) == a < n

\* if attempt > 0: a sleep precedes the attempt
SleepsBefore(a) == a > 0

\* time.sleep(delay * attempt)
Backoff_constant(d, a) == d
Backoff(d, a) == d * a

\* if result.returncode == 0: return result
ReturnsEarly_never(rc) == FALSE
ReturnsEarly(rc) == rc = 0

Runs(ev) == SelectSeq(ev, LAMBDA e : e.t = "run")
Sleeps(ev) == SelectSeq(ev, LAMBDA e : e.t = "sleep")

\* One iteration of the loop: the sleep (from the second attempt on), the command,
\* and the return on success. rc is the exit status the command gives this time.
run_with_retry_attempt(rc) ==
    /\ rpc = "loop"
    /\ InRange(attempt, max_retries)
    /\ LET slept == IF SleepsBefore(attempt)
                    THEN Append(events, [t |-> "sleep", v |-> Backoff(delay, attempt)])
                    ELSE events
       IN  /\ events' = Append(slept, [t |-> "run", v |-> rc])
           /\ now' = now + (IF SleepsBefore(attempt)
                            THEN Backoff(delay, attempt) * TicksPerSecond ELSE 0)
           /\ result' = [idx |-> Len(Runs(events)) + 1, rc |-> rc]
    /\ IF ReturnsEarly(rc)
       THEN rpc' = "returned" /\ attempt' = attempt
       ELSE rpc' = "loop" /\ attempt' = attempt + 1
    /\ UNCHANGED <<max_retries, delay>>

\* The loop ran out: "return result" after the for statement. With max_retries = 0
\* the body never ran and the name result is unbound: Python raises UnboundLocalError.
run_with_retry_exhausted ==
    /\ rpc = "loop"
    /\ ~InRange(attempt, max_retries)
    /\ rpc' = IF result = NoResult THEN "raised" ELSE "returned"
    /\ UNCHANGED <<max_retries, delay, attempt, events, result, now>>

(***************************************************************************)
(* Output lines of the transfer command.                                   *)
(*                                                                         *)
(* A line is [lead, toks]: lead says that the line starts with the words   *)
(* 'sending incremental file list', toks are the whitespace-separated      *)
(* tokens after them (single spaces between tokens, as line.split() and    *)
(* the substring tests see them). A token is [k, v]:                       *)
(*   "pct" v      the text of the integer v followed by '%'   ("45%", "-5%")*)
(*   "badpct"     a token that ends in '%' after non-numeric text ("x%")   *)
(*   "midpct"     a token with a '%' inside, not at its end   ("45%x")     *)
(*   "MB/s","kB/s" a rate with that unit                      ("1.2MB/s")  *)
(*   "digits" v   the decimal digits of v                     ("5678")     *)
(*   "commanum"   a number with thousands separators          ("5,678")    *)
(*   "bytes", "sent", "received", "word"   those words, any other word     *)
(***************************************************************************)
Tok(k, v) == [k |-> k, v |-> v]
W(k) == Tok(k, 0)

MaxPercent == 150       \* the largest percentage a line may carry
Percents == {-5, 0, 50, 100, MaxPercent}
KnownSize == 1000       \* the size the sizing command reports when it works
Counts == {KnownSize \div 2, 2 * KnownSize}     \* byte counts a summary may carry

PercentLines == [lead : {FALSE},
                toks : {<<Tok("pct", p), W("MB/s")>> : p \in Percents}]
OtherToks ==
    { <<>>,
      <<W("word")>>,
      <<W("MB/s")>>,
      <<Tok("pct", 50)>>,
      <<Tok("pct", 50), W("kB/s")>>,
      <<W("badpct"), W("MB/s")>>,
      <<W("midpct"), W("MB/s")>>,
      <<W("badpct"), Tok("pct", 50), W("MB/s")>>,
      <<Tok("pct", 50), Tok("pct", 100), W("MB/s")>>,
      <<W("commanum"), Tok("pct", 50), W("MB/s"), W("word")>>,
      <<W("sent"), Tok("digits", 500), W("bytes"), W("received"), Tok("digits", 500), W("bytes")>>,
      <<W("bytes"), W("received"), Tok("digits", 500)>>,
      <<W("bytes"), W("sent"), W("bytes"), W("received")>>,
      <<W("bytes"), W("sent"), W("bytes"), W("received"), W("commanum")>> }
SummaryToks ==
    { <<W("bytes"), W("sent"), Tok("digits", 500), W("bytes"), W("received"), Tok("digits", n)>> :
        n \in Counts }

LeadToks ==
    { <<>>,
      <<Tok("pct", 50), W("MB/s")>>,
      <<W("bytes"), W("received"), Tok("digits", 500)>>,
      <<W("bytes"), W("sent"), W("bytes"), W("received"), W("commanum")>> }

Lines == PercentLines \cup [lead : {FALSE}, toks : OtherToks \cup SummaryToks]
                      \cup [lead : {TRUE}, toks : LeadToks \cup SummaryToks]
\* What an ordinary transfer prints: the header, a file name, progress, a blank line
PlainLines == { [lead |-> TRUE, toks |-> <<>>],
                [lead |-> FALSE, toks |-> <<W("word")>>],
                [lead |-> FALSE, toks |-> <<W("commanum"), Tok("pct", 50), W("MB/s"), W("word")>>],
                [lead |-> FALSE, toks |-> <<>>] }
NoLine == [lead |-> FALSE, toks |-> <<W("none")>>]

\* line.split(): the four words of the lead, then the tokens
LeadParts == <<W("word"), W("word"), W("word"), W("word")>>
Parts(line) == IF line.lead THEN LeadParts \o line.toks ELSE line.toks

\* line.strip() is non-empty
NonBlank(line) == line.lead \/ Len(line.toks) > 0
\* line.startswith('sending incremental file list')
StartsWithSending(line) == line.lead
\* '%' in line
HasPercentSign(line) == \E i \in 1..Len(line.toks) : line.toks[i].k \in {"pct", "badpct", "midpct"}
\* 'MB/s' in line
HasMBs(line) == \E i \in 1..Len(line.toks) : line.toks[i].k = "MB/s"
\* part.endswith('%')
EndsWithPercent(part) == part.k \in {"pct", "badpct"}
\* float(part[:-1]) succeeds
FloatParses(part) == part.k = "pct"
\* "bytes sent" in line, "bytes received" in line
HasPair(line, a, b) ==
    \E i \in 1..(Len(line.toks) - 1) : line.toks[i].k = a /\ line.toks[i + 1].k = b
HasBytesSent(line) == HasPair(line, "bytes", "sent")
HasBytesReceived(line) == HasPair(line, "bytes", "received")

Abs(x) == IF x < 0 THEN -x ELSE x
\* int(x / d) for integers: Python's int() truncates toward zero
Trunc(n, d) == IF n >= 0 THEN n \div d ELSE -((-n) \div d)
\* int((percent / 100) * total_size)
PercentBytes(p, T) == Trunc(p * T, 100)
\* int(percent * 1024 * 1024), the estimate of copy_logs and copy_bags
PercentEstimate(p) == p * MiB

None == [k |-> "none", v |-> 0]
Raise == [k |-> "raise", v |-> 0]

\* for i, part in enumerate(parts): if part.endswith('%'): ...; break
\* The first token ending in '%' decides; float() of a non-number raises.
FirstPercent(parts) ==
    LET idx == {i \in 1..Len(parts) : EndsWithPercent(parts[i])}
    IN  IF idx = {} THEN 0 ELSE CHOOSE i \in idx : \A j \in idx : i <= j

\* The body of the first inner try of copy_folder (lines 521-528)
PercentBranch(line, T) ==
    IF HasPercentSign(line) /\ HasMBs(line)
    THEN LET parts == Parts(line)
             i == FirstPercent(parts)
         IN  IF i = 0 THEN None
             ELSE IF FloatParses(parts[i])
                  THEN [k |-> "update", v |-> PercentBytes(parts[i].v, T)]
                  ELSE Raise
    ELSE None

\* The body of the second inner try of copy_folder (lines 534-539):
\* the first token that isdigit() and follows the token "received"
SummaryBranch(line) ==
    LET parts == Parts(line)
        idx == {i \in 2..Len(parts) : parts[i].k = "digits" /\ parts[i - 1].k = "received"}
    IN  IF idx = {} THEN None
        ELSE [k |-> "update", v |-> parts[CHOOSE i \in idx : \A j \in idx : i <= j].v]

\* try: ... except: pass
Caught_not(x) == x
Caught(x) == IF x.k = "raise" THEN None ELSE x

\* if line.strip() and not line.startswith('sending incremental file list'): ...
TakesPercentBranch(line) == NonBlank(line) /\ ~StartsWithSending(line)

\* elif "bytes sent" in line and "bytes received" in line
IsSummary_either(line) == HasBytesSent(line) \/ HasBytesReceived(line)
IsSummary(line) == HasBytesSent(line) /\ HasBytesReceived(line)

\* What one line of output makes the stream loop of copy_folder hand to the tracker
FolderSignal(line, T) ==
    IF TakesPercentBranch(line)
    THEN Caught(PercentBranch(line, T))
    ELSE IF IsSummary(line)
         THEN Caught(SummaryBranch(line))
         ELSE None

\* The same for copy_logs and copy_bags (lines 619-632, 687-700): the percentage
\* sets current_size directly, and there is no summary branch
LogsBranch(line) ==
    IF HasPercentSign(line) /\ HasMBs(line)
    THEN LET parts == Parts(line)
             i == FirstPercent(parts)
         IN  IF i = 0 THEN None
             ELSE IF FloatParses(parts[i])
                  THEN [k |-> "set", v |-> PercentEstimate(parts[i].v)]
                  ELSE Raise
    ELSE None
LogsSignal(line) ==
    IF TakesPercentBranch(line) THEN Caught(LogsBranch(line)) ELSE None

(***************************************************************************)
(* ProgressBar. A bar is the record of the object's fields, together with  *)
(* what it has printed: renders counts the status lines display() wrote,   *)
(* lastRender is the clock at the last of them, finished counts finish().  *)
(***************************************************************************)
Bar == [total_size |-> total_size, current_size |-> current_size,
        start_time |-> start_time, last_update |-> last_update,
        renders |-> renders, lastRender |-> lastRender, finished |-> finished,
        shown |-> shown, summary |-> summary]
SetBar(b) ==
    /\ total_size' = b.total_size
    /\ current_size' = b.current_size
    /\ start_time' = b.start_time
    /\ last_update' = b.last_update
    /\ renders' = b.renders
    /\ lastRender' = b.lastRender
    /\ finished' = b.finished
    /\ shown' = b.shown
    /\ summary' = b.summary

\* A number on a status line: [k |-> "num", v |-> n]; the text '∞'; nothing printed;
\* or the exception a division by zero raises
Num(n) == [k |-> "num", v |-> n]
Infinity == [k |-> "inf", v |-> 0]
Nothing == [k |-> "none", v |-> 0]
ZeroDivisionError == [k |-> "ZeroDivisionError", v |-> 0]
NoStatus == [percent |-> Nothing, speed |-> Nothing, eta |-> Nothing]

\* __init__(total_size_bytes) at time t
ProgressBar_init(T, t) ==
    [total_size |-> T, current_size |-> 0, start_time |-> t, last_update |-> 0,
     renders |-> 0, lastRender |-> -1, finished |-> 0,
     shown |-> NoStatus, summary |-> Nothing]
NoBar == ProgressBar_init(0, 0)

\* The bar is b (in an initial state)
SetBarOf(b) ==
    /\ total_size = b.total_size
    /\ current_size = b.current_size
    /\ start_time = b.start_time
    /\ last_update = b.last_update
    /\ renders = b.renders
    /\ lastRender = b.lastRender
    /\ finished = b.finished
    /\ shown = b.shown
    /\ summary = b.summary

RECURSIVE GCD(_, _)
GCD(a, b) == IF b = 0 THEN a ELSE GCD(b, a % b)

\* int((n1 * n2) / (d1 * d2)) in exact arithmetic, n2, d1, d2 >= 0: common factors
\* are cancelled before the products are formed; a zero divisor raises
Quotient(n1, n2, d1, d2) ==
    IF d1 = 0 \/ d2 = 0 THEN ZeroDivisionError
    ELSE LET g1 == GCD(Abs(n1), d1)
             a1 == Abs(n1) \div g1
             b1 == d1 \div g1
             g2 == GCD(a1, d2)
             a2 == a1 \div g2
             b2 == d2 \div g2
             g3 == GCD(n2, b1)
             c1 == n2 \div g3
             b3 == b1 \div g3
             g4 == GCD(c1, b2)
             c2 == c1 \div g4
             b4 == b2 \div g4
             q  == (a2 * c2) \div (b3 * b4)
         IN  Num(IF n1 < 0 THEN -q ELSE q)

\* progress = min(current_size / total_size, 1.0); percent = progress * 100, here in
\* whole tenths of a percent (the status line prints one decimal)
Percent(c, T) ==
    IF T = 0 THEN ZeroDivisionError
    ELSE IF c >= T THEN Num(1000)
    ELSE Quotient(c, 1000, T, 1)

\* current_speed = current_size / elapsed, in bytes a second (elapsed in ticks)
Speed(c, elapsed) == Quotient(c, TicksPerSecond, elapsed, 1)

\* if current_speed > 0 (elapsed is positive where this is evaluated)
SpeedPositive_always(c) == TRUE
SpeedPositive(c) == c > 0

\* eta_seconds = remaining_bytes / current_speed, then int(eta_seconds)
Eta_of_total(T, c, elapsed) == Quotient(T, elapsed, c, TicksPerSecond)
Eta(T, c, elapsed) == Quotient(T - c, elapsed, c, TicksPerSecond)

\* The guards of display(): if self.total_size <= 0: return; if elapsed <= 0: return
Renders_always(T, elapsed) == TRUE
Renders(T, elapsed) == ~(T <= 0) /\ ~(elapsed <= 0)

\* display() at time t: nothing is written when total_size <= 0 or elapsed <= 0
ProgressBar_display(b, t) ==
    LET elapsed == t - b.start_time
    IN  IF ~Renders(b.total_size, elapsed)
        THEN b
        ELSE [b EXCEPT !.renders = @ + 1, !.lastRender = t,
                       !.shown = [percent |-> Percent(b.current_size, b.total_size),
                                  speed |-> Speed(b.current_size, elapsed),
                                  eta |-> IF SpeedPositive(b.current_size)
                                          THEN Eta(b.total_size, b.current_size, elapsed)
                                          ELSE Infinity]]

\* update(bytes_transferred) at time t
ProgressBar_update_always_renders(b, bytes, t) ==
    ProgressBar_display([b EXCEPT !.current_size = bytes, !.last_update = t], t)
ProgressBar_update(b, bytes, t) ==
    LET b1 == [b EXCEPT !.current_size = bytes]
    IN  IF t - b.last_update >= TicksPerSecond
        THEN ProgressBar_display([b1 EXCEPT !.last_update = t], t)
        ELSE b1

\* if elapsed > 0 in finish()
HasElapsed_always(elapsed) == TRUE
HasElapsed(elapsed) == elapsed > 0

\* finish() at time t: the average speed total_size / elapsed, in bytes a second,
\* printed when elapsed > 0
ProgressBar_finish_not_called(b, t) == b
ProgressBar_finish(b, t) ==
    LET elapsed == t - b.start_time
    IN  [b EXCEPT !.finished = @ + 1,
                  !.summary = IF HasElapsed(elapsed)
                              THEN Quotient(b.total_size, TicksPerSecond, elapsed, 1)
                              ELSE Nothing]

(***************************************************************************)
(* check_folder_overwrite and the strings it returns. A string is the      *)
(* sequence of its pieces, every ':' a piece of its own: "rename:foo2" is  *)
(* <<"rename", ":", "foo2">>.                                              *)
(***************************************************************************)
Choices == {"s", "skip", "o", "overwrite", "r", "rename", "x", ""}
Names == {<<>>, <<"foo2">>, <<"a", ":", "b">>}

RECURSIVE SplitColon(_)
\* s.split(":"): the fields between the colons
SplitColon(s) ==
    LET idx == {i \in 1..Len(s) : s[i] = ":"}
    IN  IF idx = {} THEN <<s>>
        ELSE LET i == CHOOSE i \in idx : \A j \in idx : i <= j
             IN  <<SubSeq(s, 1, i - 1)>> \o SplitColon(SubSeq(s, i + 1, Len(s)))

\* overwrite_action.startswith("rename:")
IsRename(s) == Len(s) >= 2 /\ s[1] = "rename" /\ s[2] = ":"

\* The value one answer to the prompt makes check_folder_overwrite return,
\* <<>> when it prompts again
PromptResult_accepts_empty_name(choice, name) ==
    IF choice \in {"s", "skip"} THEN <<"skip">>
    ELSE IF choice \in {"o", "overwrite"} THEN <<"overwrite">>
    ELSE IF choice \in {"r", "rename"} THEN <<"rename", ":">> \o name
    ELSE <<>>
PromptResult(choice, name) ==
    IF choice \in {"s", "skip"} THEN <<"skip">>
    ELSE IF choice \in {"o", "overwrite"} THEN <<"overwrite">>
    ELSE IF choice \in {"r", "rename"} /\ name # <<>> THEN <<"rename", ":">> \o name
    ELSE <<>>

\* The text of a returned bool: return True, return False
PyBool(b) == IF b THEN "True" ELSE "False"

(***************************************************************************)
(* The log file: one record per log_action / log_file_operation call.      *)
(***************************************************************************)
Rec(fn, op, status) == [fn |-> fn, op |-> op, status |-> status]
\* The operation names of the three jobs
OpName(k, suffix) ==
    IF k = "folder" THEN "COPY_" \o suffix
    ELSE IF k = "logs" THEN "COPY_LOGS_" \o suffix
    ELSE "COPY_BAGS_" \o suffix
ActionName(k) ==
    IF k = "folder" THEN "COPY" ELSE IF k = "logs" THEN "COPY_LOGS" ELSE "COPY_BAGS"
DefaultName(k) == IF k = "folder" THEN <<"folder">> ELSE <<k>>

(***************************************************************************)
(* The copy job: copy_folder, copy_logs, copy_bags.                        *)
(***************************************************************************)
MaxLines == 2           \* lines of output one transfer prints
MaxPolls == 3           \* iterations of the scp wait loop
MaxGap == 2             \* ticks that pass while the loop waits for the next line
BenchTimes == {1, 2}    \* measured durations of the two benchmark runs
SizeOutputs == {[ok |-> TRUE, n |-> KnownSize], [ok |-> FALSE, n |-> 0]}
MaxPrompts == 1         \* answers the prompt turns down before the user gives a valid one

\* shutil.rmtree(path, ignore_errors=True) and path.mkdir(parents=True, exist_ok=True)
Rmtree(d, name) == d \ {name}
Mkdir(d, name) == d \cup {name}

\* if overwrite_action == "skip": ... return False
IsSkip_never(action) == FALSE
IsSkip(action) == action = <<"skip">>

\* elif overwrite_action == "overwrite": the existing tree is removed
RemovesExisting_never(action) == FALSE
RemovesExisting(action) == action = <<"overwrite">>

\* check_folder_overwrite, up to its first prompt
copy_start ==
    /\ pc = "start"
    /\ IF destExists
       THEN pc' = "prompt" /\ UNCHANGED decision
       ELSE pc' = "resolved" /\ decision' = <<"proceed">>
    /\ UNCHANGED <<retryVars, now, barVars, kind, feed, destExists, dirs, prompts, destName, removed,
                   speedOpt, method, sizeFailed, launchOK, launches, linesRead, lastLine,
                   signal, polls, exitCode, ret, log>>
    /\ UNCHANGED <<benchVars, procVars, mainVars, sessionVars, watchVars, destVars>>

\* One answer to "Choose action (S)kip/(O)verwrite/(R)ename" (and to the name prompt)
check_folder_overwrite_prompt(choice, name) ==
    /\ pc = "prompt"
    /\ LET r == PromptResult(choice, name)
       IN  IF r = <<>>
           THEN /\ prompts < MaxPrompts
                /\ prompts' = prompts + 1
                /\ UNCHANGED <<pc, decision>>
           ELSE /\ pc' = "resolved"
                /\ decision' = r
                /\ prompts' = prompts
    /\ UNCHANGED <<retryVars, now, barVars, kind, feed, destExists, dirs, destName, removed,
                   speedOpt, method, sizeFailed, launchOK, launches, linesRead, lastLine,
                   signal, polls, exitCode, ret, log>>
    /\ UNCHANGED <<benchVars, procVars, mainVars, sessionVars, watchVars, destVars>>

\* What follows the decision handling: copy_folder asks for the size of the source
\* (lines 476-479), copy_logs and copy_bags go straight to the transfer (603-615)
AfterResolve_no_sizing(k) == "launch"
AfterResolve(k) == IF k = "folder" THEN "sizing" ELSE "launch"

\* The job acts on the decision (lines 461-474, 589-602, 657-670); copy_folder then
\* calls run_with_retry for the size, copy_logs and copy_bags build their ProgressBar
copy_resolve(rm_ok) ==
    /\ pc = "resolved"
    /\ IF IsSkip(decision)
       THEN /\ log' = Append(log, Rec("FILE_OP", OpName(kind, "SKIPPED"), "USER_SKIP"))
            /\ ret' = PyBool(FALSE)
            /\ pc' = "done"
            /\ UNCHANGED <<destName, removed, dirs, stale, retryVars, barVars>>
       ELSE /\ IF IsRename(decision)
               THEN /\ destName' = SplitColon(decision)[2]
                    /\ removed' = removed
                    /\ stale' = (destName' \in dirs)
                    /\ dirs' = Mkdir(dirs, destName')
                    /\ log' = Append(log, Rec("FILE_OP", OpName(kind, "RENAMED"), "RENAMED")) \o
                              (IF kind = "folder" THEN <<>>
                               ELSE <<Rec("FILE_OP", OpName(kind, "START"), "STARTED")>>)
               ELSE IF RemovesExisting(decision)
               THEN /\ removed' = TRUE
                    /\ destName' = destName
                    /\ stale' = (destName \in dirs /\ ~rm_ok)
                    /\ dirs' = Mkdir(IF rm_ok THEN Rmtree(dirs, destName) ELSE dirs, destName)
                    /\ log' = Append(log, Rec("FILE_OP", OpName(kind, "OVERWRITE"), "OVERWRITE")) \o
                              (IF kind = "folder" THEN <<>>
                               ELSE <<Rec("FILE_OP", OpName(kind, "START"), "STARTED")>>)
               ELSE /\ UNCHANGED <<destName, removed>>
                    /\ stale' = (destName \in dirs)
                    /\ dirs' = Mkdir(dirs, destName)
                    /\ log' = log \o (IF kind = "folder" THEN <<>>
                                      ELSE <<Rec("FILE_OP", OpName(kind, "START"), "STARTED")>>)
            /\ ret' = ret
            /\ IF AfterResolve(kind) = "sizing"
               THEN /\ pc' = "sizing"
                    /\ rpc' = "loop"
                    /\ max_retries' = MAX_RETRIES
                    /\ delay' = RETRY_DELAY
                    /\ attempt' = 0
                    /\ events' = <<>>
                    /\ result' = NoResult
                    /\ UNCHANGED barVars
               ELSE /\ pc' = "launch"
                    /\ SetBar(ProgressBar_init(0, now))
                    /\ UNCHANGED retryVars
    /\ UNCHANGED <<now, kind, feed, destExists, prompts, decision, speedOpt, method, sizeFailed,
                   launchOK, launches, linesRead, lastLine, signal, polls, exitCode>>
    /\ UNCHANGED <<benchVars, procVars, mainVars, sessionVars, watchVars>>

\* if size_result.returncode == 0: try: total_size = int(...): the size is taken from
\* the command's output only when the command exited 0 and the output parses
SizeKnown_ignores_exit(rc, out) == out.ok
SizeKnown(rc, out) == rc = 0 /\ out.ok

\* run_with_retry returned the sizing result (lines 481-489); out is what the command
\* printed (du may print a total and still exit non-zero)
copy_folder_sized(out) ==
    /\ pc = "sizing"
    /\ rpc = "returned"
    /\ total_size' = IF SizeKnown(result.rc, out) THEN out.n ELSE 0
    /\ sizeFailed' = ~SizeKnown(result.rc, out)
    /\ log' = IF result.rc = 0
              THEN Append(log, Rec("FILE_OP", "COPY_SIZE_CHECK",
                                   IF out.ok THEN "SUCCESS" ELSE "FAILED"))
              ELSE log
    /\ pc' = "select"
    /\ rpc' = "idle" /\ max_retries' = 0 /\ delay' = 0 /\ attempt' = 0
    /\ events' = <<>> /\ result' = NoResult
    /\ UNCHANGED <<now, current_size, start_time, last_update, renders, lastRender, finished,
                   shown, summary,
                   kind, feed, destExists, dirs, prompts, decision, destName, removed, speedOpt, method,
                   launchOK, launches, linesRead, lastLine, signal, polls, exitCode, ret>>
    /\ UNCHANGED <<benchVars, procVars, mainVars, sessionVars, watchVars, destVars>>

\* test_copy_methods' choice (lines 448-453): the faster of the two measured runs,
\* rsync on a tie
test_copy_methods_scp_on_tie(rsync_time, scp_time) ==
    IF rsync_time < scp_time THEN "rsync" ELSE "scp"
test_copy_methods(rsync_time, scp_time) ==
    IF rsync_time <= scp_time THEN "rsync" ELSE "scp"

\* if SPEED_OPTIMIZATION == "auto": the benchmark runs, else the setting is the method
Pinned_never(opt) == FALSE
Pinned(opt) == ~(opt = "auto")

\* The candidates of test_copy_methods, in the order the function runs them
Candidates == <<"rsync", "scp">>

\* Lines 491-505: the method is the setting, and the ProgressBar is built; or
\* test_copy_methods is called
copy_folder_select ==
    /\ pc = "select"
    /\ IF Pinned(speedOpt)
       THEN /\ method' = speedOpt
            /\ SetBar(ProgressBar_init(total_size, now))
            /\ pc' = "launch"
            /\ UNCHANGED benchVars
       ELSE /\ pc' = "bench"
            /\ bench' = <<>>
            /\ benchmarks' = benchmarks + 1
            /\ UNCHANGED <<method, scratch, measured, barVars>>
    /\ UNCHANGED <<retryVars, now, kind, feed, destExists, dirs, prompts, decision, destName, removed,
                   speedOpt, sizeFailed, launchOK, launches, linesRead, lastLine, signal,
                   polls, exitCode, ret, log>>
    /\ UNCHANGED <<procVars, mainVars, sessionVars, watchVars, destVars>>

\* One candidate of test_copy_methods runs to its end (lines 426-431, 434-439): it
\* exits with rc after t ticks; rsync is run with --dry-run and makes nothing, whether
\* the scp run leaves ./speed_test_temp behind is the tool's (made)
test_copy_methods_run(rc, t, made) ==
    /\ pc = "bench"
    /\ Len(bench) < Len(Candidates)
    /\ bench' = Append(bench, [tool |-> Candidates[Len(bench) + 1], rc |-> rc, time |-> t])
    /\ now' = now + t
    /\ scratch' = (scratch \/ (made /\ Candidates[Len(bench) + 1] = "scp"))
    /\ UNCHANGED <<retryVars, barVars, kind, pc, feed, destExists, dirs, prompts, decision, destName,
                   removed, speedOpt, method, sizeFailed, launchOK, launches, linesRead,
                   lastLine, signal, polls, exitCode, ret, log>>
    /\ UNCHANGED <<benchmarks, measured, procVars, mainVars, sessionVars, watchVars, destVars>>

\* An exception raised while a candidate runs (Ctrl-C during subprocess.run): no
\* handler and no "finally" in test_copy_methods, copy_folder or main, so it leaves
\* them all; the candidate may have made ./speed_test_temp before it was stopped
test_copy_methods_interrupt(made) ==
    /\ pc = "bench"
    /\ Len(bench) < Len(Candidates)
    /\ scratch' = (scratch \/ (made /\ Candidates[Len(bench) + 1] = "scp"))
    /\ pc' = "raised"
    /\ UNCHANGED <<retryVars, now, barVars, kind, feed, destExists, dirs, prompts, decision, destName,
                   removed, speedOpt, method, sizeFailed, launchOK, launches, linesRead,
                   lastLine, signal, polls, exitCode, ret, log>>
    /\ UNCHANGED <<bench, benchmarks, measured, procVars, mainVars, sessionVars, watchVars, destVars>>

\* Both candidates ran: "rm -rf ./speed_test_temp" (line 441), the choice (448-453),
\* and copy_folder builds its ProgressBar (line 505)
test_copy_methods_return ==
    /\ pc = "bench"
    /\ Len(bench) = Len(Candidates)
    /\ scratch' = FALSE
    /\ measured' = [rsync_time |-> bench[1].time, scp_time |-> bench[2].time]
    /\ method' = test_copy_methods(measured'.rsync_time, measured'.scp_time)
    /\ bench' = <<>>
    /\ SetBar(ProgressBar_init(total_size, now))
    /\ pc' = "launch"
    /\ UNCHANGED <<retryVars, now, kind, feed, destExists, dirs, prompts, decision, destName, removed,
                   speedOpt, sizeFailed, launchOK, launches, linesRead, lastLine, signal,
                   polls, exitCode, ret, log>>
    /\ UNCHANGED <<benchmarks, procVars, mainVars, sessionVars, watchVars, destVars>>

\* The tool of the transfer command: copy_folder's "if fastest_method == "rsync""
\* (lines 508-551); copy_logs and copy_bags build an rsync command (lines 612, 680)
TransferTool(k, m, opt) == IF k = "folder" /\ m # "rsync" THEN "scp" ELSE "rsync"

\* subprocess.Popen(cmd, shell=True, ...): the shell starts, and may fail to start
\* the transfer tool; d ticks pass
copy_launch(ok, d) ==
    /\ pc = "launch"
    /\ launchOK' = ok
    /\ launches' = launches + 1
    /\ now' = now + d
    /\ tool' = TransferTool(kind, method, speedOpt)
    /\ alive' = alive + 1
    /\ pc' = IF tool' = "scp" THEN "scp" ELSE "stream"
    /\ UNCHANGED <<retryVars, barVars, kind, feed, destExists, dirs, prompts, decision, destName, removed,
                   speedOpt, method, sizeFailed, linesRead, lastLine, signal, polls,
                   exitCode, ret, log>>
    /\ UNCHANGED <<benchVars, unread, blocked, mainVars, sessionVars, watchVars, destVars>>

\* What the loop does with the signal of a line, at time t: the new bar
Feed(b, sig, t) ==
    IF sig.k = "update" THEN ProgressBar_update(b, sig.v, t)
    ELSE IF sig.k = "set" THEN ProgressBar_display([b EXCEPT !.current_size = sig.v], t)
    ELSE IF sig.k = "raise" THEN ProgressBar_finish(b, t)
    ELSE b

\* One iteration of "for line in process.stdout", after waiting d ticks for the line
copy_stream_line(line, d) ==
    /\ pc = "stream"
    /\ launchOK
    /\ linesRead < MaxLines
    /\ line \in feed
    /\ now' = now + d
    /\ linesRead' = linesRead + 1
    /\ lastLine' = line
    /\ LET sig == IF kind = "folder" THEN FolderSignal(line, total_size) ELSE LogsSignal(line)
       IN  /\ signal' = sig
           /\ SetBar(Feed(Bar, sig, now'))
           /\ pc' = IF sig.k = "raise" THEN "crashed" ELSE pc
    /\ UNCHANGED <<retryVars, kind, feed, destExists, dirs, prompts, decision, destName, removed, speedOpt,
                   method, sizeFailed, launchOK, launches, polls, exitCode, ret, log>>
    /\ UNCHANGED <<benchVars, procVars, mainVars, sessionVars, watchVars, destVars>>

\* estimated_speed = 100 * 1024 * 1024 bytes a second
EstimatedSpeed == 100 * MiB
\* min(int(elapsed * estimated_speed), total_size), elapsed in ticks
EstimatedBytes(elapsed, T) ==
    LET e == (elapsed * EstimatedSpeed) \div TicksPerSecond
    IN  IF e < T THEN e ELSE T

\* One iteration of "while process.poll() is None" (lines 554-563)
copy_scp_poll(d) ==
    /\ pc = "scp"
    /\ polls < MaxPolls
    /\ polls' = polls + 1
    /\ LET elapsed == now - start_time
       IN  IF elapsed > 0 /\ total_size > 0
           THEN SetBar(ProgressBar_display(
                         ProgressBar_update(Bar, EstimatedBytes(elapsed, total_size), now), now))
           ELSE UNCHANGED barVars
    /\ now' = now + 1 + d
    /\ UNCHANGED <<retryVars, kind, pc, feed, destExists, dirs, prompts, decision, destName, removed,
                   speedOpt, method, sizeFailed, launchOK, launches, linesRead, lastLine,
                   signal, exitCode, ret, log>>
    /\ UNCHANGED <<benchVars, procVars, mainVars, sessionVars, watchVars, destVars>>

\* The scp branch never reads process.stdout (lines 550-565): what the process
\* writes stays in the pipe, and once the pipe is full the process's next write blocks
PipeCap == 1            \* the pipe holds this many lines
scp_writes_output ==
    /\ pc = "scp"
    /\ launchOK
    /\ ~blocked
    /\ IF unread < PipeCap
       THEN unread' = unread + 1 /\ UNCHANGED blocked
       ELSE blocked' = TRUE /\ UNCHANGED unread
    /\ UNCHANGED <<retryVars, now, barVars, kind, pc, feed, destExists, dirs, prompts, decision,
                   destName, removed, speedOpt, method, sizeFailed, launchOK, launches,
                   linesRead, lastLine, signal, polls, exitCode, ret, log>>
    /\ UNCHANGED <<benchVars, tool, alive, mainVars, sessionVars, watchVars, destVars>>

\* process.wait() returns / process.poll() is not None only for a process that ended
Exited_without_wait(n) == n
Exited(n) == n - 1

\* The process ended: process.wait() / process.returncode, then finish() in "finally"
copy_transfer_end(rc) ==
    /\ pc \in {"stream", "scp"}
    /\ ~blocked
    /\ alive' = Exited(alive)
    /\ UNCHANGED <<benchVars, tool, unread, blocked, mainVars, sessionVars, watchVars, destVars>>
    /\ IF launchOK THEN rc \in ExitCodes ELSE rc = 127
    /\ exitCode' = rc
    /\ SetBar(ProgressBar_finish(Bar, now))
    /\ pc' = "report"
    /\ UNCHANGED <<retryVars, now, kind, feed, destExists, dirs, prompts, decision, destName, removed,
                   speedOpt, method, sizeFailed, launchOK, launches, linesRead, lastLine,
                   signal, polls, ret, log>>

\* An exception inside the try block that is not a line's parsing error (Ctrl-C, a
\* read of the pipe that fails): "finally" calls finish(), and the exception leaves
\* the job, which logs nothing and returns nothing
copy_interrupt ==
    /\ pc \in {"stream", "scp"}
    /\ SetBar(ProgressBar_finish(Bar, now))
    /\ pc' = "raised"
    /\ UNCHANGED <<retryVars, now, kind, feed, destExists, dirs, prompts, decision, destName,
                   removed, speedOpt, method, sizeFailed, launchOK, launches, linesRead,
                   lastLine, signal, polls, exitCode, ret, log>>
    /\ UNCHANGED <<benchVars, procVars, mainVars, sessionVars, watchVars, destVars>>

\* if result == 0: ... return True, else: ... return False (lines 571-580, 639-648)
Succeeded_always(rc) == TRUE
Succeeded(rc) == rc = 0

copy_report ==
    /\ pc = "report"
    /\ IF Succeeded(exitCode)
       THEN /\ log' = log \o <<Rec("ACTION", ActionName(kind), "SUCCESS"),
                                Rec("FILE_OP", OpName(kind, IF kind = "folder" THEN "COMPLETE"
                                                            ELSE "SUCCESS"), "SUCCESS")>>
            /\ ret' = PyBool(TRUE)
       ELSE /\ log' = log \o <<Rec("ACTION", ActionName(kind), "FAILED"),
                                Rec("FILE_OP", OpName(kind, "FAILED"), "FAILED")>>
            /\ ret' = PyBool(FALSE)
    /\ pc' = "done"
    /\ UNCHANGED <<retryVars, now, barVars, kind, feed, destExists, dirs, prompts, decision, destName,
                   removed, speedOpt, method, sizeFailed, launchOK, launches, linesRead,
                   lastLine, signal, polls, exitCode>>
    /\ UNCHANGED <<benchVars, procVars, mainVars, sessionVars, watchVars, destVars>>

\* main's "Speed Optimization Settings" menu (lines 801-828), entered between jobs:
\* 1 forces rsync, 2 forces scp, 3 turns auto-detection on, anything else changes nothing
SpeedChoices == {"1", "2", "3", "4", ""}
SpeedSetting(speed_choice, old) ==
    IF speed_choice = "1" THEN "rsync"
    ELSE IF speed_choice = "2" THEN "scp"
    ELSE IF speed_choice = "3" THEN "auto"
    ELSE old
main_speed_menu(speed_choice) ==
    /\ pc = "start"
    /\ mpc = "off"
    /\ speedOpt' = SpeedSetting(speed_choice, speedOpt)
    /\ UNCHANGED <<retryVars, now, barVars, kind, pc, feed, destExists, dirs, prompts, decision,
                   destName, removed, method, sizeFailed, launchOK, launches, linesRead,
                   lastLine, signal, polls, exitCode, ret, log>>
    /\ UNCHANGED <<benchVars, procVars, mainVars, sessionVars, watchVars, destVars>>

(***************************************************************************)
(* Specifications                                                          *)
(***************************************************************************)
RetryIdle ==
    /\ rpc = "idle" /\ max_retries = 0 /\ delay = 0 /\ attempt = 0
    /\ events = <<>> /\ result = NoResult
NoTimes == [rsync_time |-> -1, scp_time |-> -1]
NoProcess ==
    /\ bench = <<>> /\ scratch = FALSE /\ benchmarks = 0 /\ measured = NoTimes
    /\ tool = "none" /\ alive = 0 /\ unread = 0 /\ blocked = FALSE
JobFresh ==
    /\ stale = FALSE
    /\ decision = <<>> /\ removed = FALSE /\ method = "none" /\ sizeFailed = FALSE
    /\ launchOK = FALSE /\ launches = 0 /\ linesRead = 0 /\ lastLine = NoLine
    /\ signal = None /\ polls = 0 /\ exitCode = -1 /\ ret = "none" /\ log = <<>>
    /\ NoProcess
NoItem == [name |-> "", tenths |-> 0, unit |-> ""]
Files == {"a", "b", "git"}
NoTree == [f \in Files |-> 0]
NoSession ==
    /\ session_operations = 0 /\ successful_operations = 0 /\ data_type = ""
    /\ purpose = "" /\ answer = <<>> /\ delq = <<>> /\ deleted_folders = <<>>
NoWatch ==
    /\ wpc = "off" /\ tree = NoTree /\ last_hash = 0 /\ last_change = Num(0)
    /\ pushes = 0 /\ lastDetect = -1 /\ changed = FALSE
NoBatch ==
    /\ mpc = "off" /\ queue = <<>> /\ item = NoItem /\ free = 0
    /\ copied_folders = <<>> /\ failed_folders = <<>>
    /\ NoSession /\ NoWatch

\* A copy job from its first line
Init ==
    /\ RetryIdle
    /\ now = StartClock
    /\ kind \in {"folder", "logs", "bags"}
    /\ pc = "start"
    /\ feed = PlainLines
    /\ destExists \in BOOLEAN
    /\ dirs = IF destExists THEN {DefaultName(kind)} ELSE {}
    /\ prompts = 0
    /\ destName = DefaultName(kind)
    /\ speedOpt \in {"auto", "rsync", "scp"}
    /\ JobFresh
    /\ SetBarOf(NoBar)
    /\ NoBatch
Next ==
    \/ \E speed_choice \in SpeedChoices : main_speed_menu(speed_choice)
    \/ copy_start
    \/ \E choice \in Choices, name \in Names : check_folder_overwrite_prompt(choice, name)
    \/ copy_resolve(TRUE)
    \/ \E rc \in ExitCodes : run_with_retry_attempt(rc) /\ UNCHANGED <<jobVars, barVars, mainVars, sessionVars, watchVars, destVars>>
    \/ run_with_retry_exhausted /\ UNCHANGED <<jobVars, barVars, mainVars, sessionVars, watchVars, destVars>>
    \/ \E out \in SizeOutputs : copy_folder_sized(out)
    \/ copy_folder_select
    \/ \E rc \in ExitCodes, t \in BenchTimes, made \in BOOLEAN : test_copy_methods_run(rc, t, made)
    \/ \E made \in BOOLEAN : test_copy_methods_interrupt(made)
    \/ test_copy_methods_return
    \/ \E ok \in BOOLEAN, d \in 0..1 : copy_launch(ok, d)
    \/ \E line \in Lines, d \in 0..MaxGap : copy_stream_line(line, d)
    \/ \E d \in 0..1 : copy_scp_poll(d)
    \/ scp_writes_output
    \/ \E rc \in ExitCodes \cup {127} : copy_transfer_end(rc)
    \/ copy_interrupt
    \/ copy_report
Spec == Init /\ [][Next]_vars

\* run_with_retry alone, called with any max_retries and delay
InitRetry ==
    /\ rpc = "loop"
    /\ max_retries \in 0..MaxRetriesArg
    /\ delay \in 0..MaxDelayArg
    /\ attempt = 0 /\ events = <<>> /\ result = NoResult
    /\ now = StartClock
    /\ kind = "none" /\ pc = "off" /\ feed = {} /\ destExists = FALSE
    /\ dirs = {} /\ prompts = 0
    /\ destName = <<>> /\ speedOpt = "auto"
    /\ JobFresh
    /\ SetBarOf(NoBar)
    /\ NoBatch
NextRetry ==
    \/ \E rc \in ExitCodes : run_with_retry_attempt(rc) /\ UNCHANGED <<jobVars, barVars, mainVars, sessionVars, watchVars, destVars>>
    \/ run_with_retry_exhausted /\ UNCHANGED <<jobVars, barVars, mainVars, sessionVars, watchVars, destVars>>
SpecRetry == InitRetry /\ [][NextRetry]_vars

\* The transfer of a job whose destination was free, from the launch of the transfer
\* command on, with a command that may print any line of Lines: copy_folder with the
\* size known or unknown and either method pinned, copy_logs, copy_bags
InitStream ==
    /\ RetryIdle
    /\ now = StartClock
    /\ kind \in {"folder", "logs", "bags"}
    /\ pc = "launch"
    /\ feed = Lines
    /\ destExists = FALSE
    /\ dirs = {DefaultName(kind)}
    /\ prompts = 0
    /\ destName = DefaultName(kind)
    /\ decision = <<"proceed">>
    /\ removed = FALSE /\ stale = FALSE
    /\ IF kind = "folder"
       THEN /\ speedOpt \in {"rsync", "scp"}
            /\ method = speedOpt
            /\ sizeFailed \in BOOLEAN
            /\ log = IF sizeFailed THEN <<>>
                     ELSE <<Rec("FILE_OP", "COPY_SIZE_CHECK", "SUCCESS")>>
            /\ SetBarOf(ProgressBar_init(IF sizeFailed THEN 0 ELSE KnownSize, now))
       ELSE /\ speedOpt = "auto"
            /\ method = "none"
            /\ sizeFailed = FALSE
            /\ log = <<Rec("FILE_OP", OpName(kind, "START"), "STARTED")>>
            /\ SetBarOf(ProgressBar_init(0, now))
    /\ launchOK = FALSE /\ launches = 0 /\ linesRead = 0 /\ lastLine = NoLine
    /\ signal = None /\ polls = 0 /\ exitCode = -1 /\ ret = "none"
    /\ NoProcess
    /\ NoBatch
NextStream ==
    \/ \E ok \in BOOLEAN, d \in 0..1 : copy_launch(ok, d)
    \/ \E line \in Lines, d \in 0..MaxGap : copy_stream_line(line, d)
    \/ \E d \in 0..1 : copy_scp_poll(d)
    \/ scp_writes_output
    \/ \E rc \in ExitCodes \cup {127} : copy_transfer_end(rc)
    \/ copy_interrupt
    \/ copy_report
SpecStream == InitStream /\ [][NextStream]_vars

\* check_folder_overwrite and the statements that act on its decision, with a user
\* who does not answer the prompt wrongly forever
\* (a valid answer is the step that takes the function from its prompt to its return)
ValidAnswer == pc = "prompt" /\ pc' = "resolved"
NextPrompt ==
    \/ copy_start
    \/ \E choice \in Choices, name \in Names : check_folder_overwrite_prompt(choice, name)
    \/ \E rm_ok \in BOOLEAN : copy_resolve(rm_ok)
SpecPrompt == Init /\ [][NextPrompt]_vars /\ WF_pc(ValidAnswer)

\* main's loop over the selected recordings (lines 898-918). A size is what "du -sh"
\* printed for the folder: tenths is the number before the last character, in tenths
\* (-1: that text is not a number, as for the size "0"), unit is the last character.
\* Free space is counted in hundreds of bytes.
Folders == {[name |-> "rec_a", tenths |-> 15, unit |-> "G"],
            [name |-> "rec_b", tenths |-> 40, unit |-> "K"],
            [name |-> "rec_c", tenths |-> -1, unit |-> "0"]}
MaxBatch == 2           \* recordings selected for one batch
Selections == UNION {[1..n -> Folders] : n \in 1..MaxBatch}
FreeSpaces == {5000, 20000000}
BatchLines == {[lead |-> FALSE, toks |-> <<W("commanum"), Tok("pct", 50), W("MB/s"), W("word")>>]}

\* float(size_str[:-1]) raises ValueError when the text is not a number
Parses(it) == it.tenths >= 0
\* {'K': 1e3, 'M': 1e6, 'G': 1e9, 'T': 1e12}.get(unit, 1), in thousands
Thousands(unit) ==
    IF unit = "K" THEN 1
    ELSE IF unit = "M" THEN 1000
    ELSE IF unit = "G" THEN 1000 * 1000
    ELSE IF unit = "T" THEN 1000 * 1000 * 1000
    ELSE 0
\* estimated_bytes > get_local_free_space(), with estimated_bytes = num * multiplier:
\* tenths/10 * multiplier > 100 * f
Exceeds_never(it, f) == FALSE
Exceeds(it, f) ==
    IF Thousands(it.unit) > 0
    THEN it.tenths * Thousands(it.unit) > f
    ELSE it.tenths > 1000 * f

\* One iteration of "for i in indices" up to the call of copy_folder (lines 899-912);
\* f is what get_local_free_space() returns
main_next_item(f) ==
    /\ mpc = "loop"
    /\ queue # <<>>
    /\ LET it == Head(queue)
       IN  /\ item' = it
           /\ queue' = Tail(queue)
           /\ IF ~Parses(it)
              THEN /\ mpc' = "raised"
                   /\ UNCHANGED <<free, log, failed_folders, pc, destName, destExists>>
              ELSE IF Exceeds(it, f)
              THEN /\ free' = f
                   /\ log' = log \o <<Rec("ACTION", "COPY", "SKIPPED"),
                                       Rec("FILE_OP", "COPY_SKIPPED", "INSUFFICIENT_SPACE")>>
                   /\ failed_folders' = Append(failed_folders, it.name)
                   /\ UNCHANGED <<mpc, pc, destName, destExists>>
              ELSE /\ free' = f
                   /\ log' = Append(log, Rec("FILE_OP", "COPY_START", "STARTED"))
                   /\ mpc' = "copying"
                   /\ pc' = "start"
                   /\ destName' = <<it.name>>
                   /\ destExists' = (<<it.name>> \in dirs)
                   /\ UNCHANGED failed_folders
    /\ UNCHANGED <<retryVars, now, barVars, kind, feed, dirs, prompts, decision, removed, speedOpt,
                   method, sizeFailed, launchOK, launches, linesRead, lastLine, signal, polls,
                   exitCode, ret, benchVars, procVars, copied_folders>>
    /\ UNCHANGED <<sessionVars, watchVars, destVars>>

\* copy_folder returned (lines 912-918): its frame is gone, the folder is counted
main_copy_returned ==
    /\ mpc = "copying"
    /\ pc = "done"
    /\ IF ret = "True"
       THEN /\ copied_folders' = Append(copied_folders, item.name)
            /\ log' = Append(log, Rec("FILE_OP", "COPY_SUCCESS", "SUCCESS"))
            /\ successful_operations' = successful_operations + 1
            /\ UNCHANGED failed_folders
       ELSE /\ failed_folders' = Append(failed_folders, item.name)
            /\ log' = Append(log, Rec("FILE_OP", "COPY_FAILED", "FAILED"))
            /\ UNCHANGED <<copied_folders, successful_operations>>
    /\ mpc' = "loop"
    /\ pc' = "idle"
    /\ prompts' = 0 /\ decision' = <<>> /\ removed' = FALSE /\ method' = "none"
    /\ sizeFailed' = FALSE /\ launchOK' = FALSE /\ launches' = 0 /\ linesRead' = 0
    /\ lastLine' = NoLine /\ signal' = None /\ polls' = 0 /\ exitCode' = -1 /\ ret' = "none"
    /\ tool' = "none" /\ unread' = 0 /\ blocked' = FALSE
    /\ SetBar(NoBar)
    /\ UNCHANGED <<retryVars, now, kind, feed, destExists, dirs, destName, speedOpt, benchVars,
                   alive, queue, item, free>>
    /\ UNCHANGED <<session_operations, data_type, purpose, answer, delq, deleted_folders,
                   watchVars>>
    /\ stale' = FALSE

\* The loop is over: the COPY_SUMMARY record (line 921); the delete question follows
\* when a folder was copied (line 923), the action menu otherwise
main_summary ==
    /\ mpc = "loop"
    /\ queue = <<>>
    /\ mpc' = IF copied_folders # <<>> THEN "confirm" ELSE "actions"
    /\ log' = Append(log, Rec("USER_OP", "COPY_SUMMARY",
                              IF copied_folders # <<>> THEN "SUCCESS" ELSE "PARTIAL"))
    /\ UNCHANGED <<retryVars, now, barVars, kind, pc, feed, destExists, dirs, prompts, decision,
                   destName, removed, speedOpt, method, sizeFailed, launchOK, launches,
                   linesRead, lastLine, signal, polls, exitCode, ret, benchVars, procVars,
                   queue, item, free, copied_folders, failed_folders>>
    /\ UNCHANGED <<sessionVars, watchVars, destVars>>

\* A batch of selected recordings, with a method pinned and a sizing command that works
InitBatch ==
    /\ RetryIdle
    /\ now = StartClock
    /\ kind = "folder" /\ pc = "idle" /\ feed = PlainLines /\ destExists = FALSE
    /\ dirs = {} /\ prompts = 0
    /\ destName = <<>> /\ speedOpt \in {"rsync", "scp"}
    /\ JobFresh
    /\ SetBarOf(NoBar)
    /\ mpc = "loop" /\ queue \in Selections /\ item = NoItem /\ free = 0
    /\ copied_folders = <<>> /\ failed_folders = <<>>
    /\ NoSession /\ NoWatch
NextBatch ==
    \/ \E f \in FreeSpaces : main_next_item(f)
    \/ main_copy_returned
    \/ main_summary
    \/ copy_start
    \/ \E choice \in Choices, name \in Names : check_folder_overwrite_prompt(choice, name)
    \/ copy_resolve(TRUE)
    \/ run_with_retry_attempt(0) /\ UNCHANGED <<jobVars, barVars, mainVars, sessionVars, watchVars, destVars>>
    \/ copy_folder_sized([ok |-> TRUE, n |-> KnownSize])
    \/ copy_folder_select
    \/ \E ok \in BOOLEAN : copy_launch(ok, 0)
    \/ \E line \in BatchLines : copy_stream_line(line, 0)
    \/ copy_scp_poll(0)
    \/ scp_writes_output
    \/ \E rc \in ExitCodes \cup {127} : copy_transfer_end(rc)
    \/ copy_interrupt
    \/ copy_report
SpecBatch == InitBatch /\ [][NextBatch]_vars

(***************************************************************************)
(* main's menus (lines 732-1026): the session, the data type menu, the     *)
(* action menus, the folder listing, and the two delete loops.             *)
(***************************************************************************)
MaxOps == 3             \* menu selections followed in one session
DataTypes == {"1", "2", "3", "4", "7"}
Actions == {"1", "2", "3", "4", "5"}
\* The folders the remote lists in a session, and the selections followed: none, the
\* first, the first two, ...
Listing == [i \in 1..MaxBatch |->
              IF i % 2 = 1 THEN [name |-> "rec_b", tenths |-> 40, unit |-> "K"]
              ELSE [name |-> "rec_a", tenths |-> 15, unit |-> "G"]]
MenuSelections == {SubSeq(Listing, 1, n) : n \in 0..MaxBatch}
\* What the user may type at "Delete copied folder(s) from remote now? (yes/no)"
Answers == {<<"y", "e", "s">>, <<" ", "Y", "e", "s", " ">>, <<"n", "o">>}

\* str.strip(): leading and trailing blanks go
RECURSIVE Strip(_)
Strip(s) ==
    IF s = <<>> THEN s
    ELSE IF Head(s) = " " THEN Strip(Tail(s))
    ELSE IF s[Len(s)] = " " THEN Strip(SubSeq(s, 1, Len(s) - 1))
    ELSE s
\* str.lower(), on the characters the answers are made of
LowerChar(c) ==
    IF c = "Y" THEN "y" ELSE IF c = "E" THEN "e" ELSE IF c = "S" THEN "s"
    ELSE IF c = "N" THEN "n" ELSE IF c = "O" THEN "o" ELSE c
Lower(s) == [i \in 1..Len(s) |-> LowerChar(s[i])]
\* if confirm == "yes"
Confirmed_always(confirm) == TRUE
Confirmed(confirm) == confirm = <<"y", "e", "s">>

\* The job's locals and the machine it runs on, which the menus leave alone
jobState == <<feed, destExists, dirs, prompts, decision, destName, removed, speedOpt, method,
              sizeFailed, launchOK, launches, linesRead, lastLine, signal, polls, exitCode,
              ret, benchVars, procVars, destVars>>
batchVars == <<queue, item, free, copied_folders, failed_folders>>

\* A call of run_with_retry with its default arguments
CallRetry ==
    /\ rpc' = "loop" /\ max_retries' = MAX_RETRIES /\ delay' = RETRY_DELAY
    /\ attempt' = 0 /\ events' = <<>> /\ result' = NoResult
\* run_with_retry's frame is gone
RetryGone ==
    /\ rpc' = "idle" /\ max_retries' = 0 /\ delay' = 0 /\ attempt' = 0
    /\ events' = <<>> /\ result' = NoResult
\* A returned job's frame is gone
JobGone ==
    /\ pc' = "idle"
    /\ prompts' = 0 /\ decision' = <<>> /\ removed' = FALSE /\ method' = "none"
    /\ sizeFailed' = FALSE /\ launchOK' = FALSE /\ launches' = 0 /\ linesRead' = 0
    /\ lastLine' = NoLine /\ signal' = None /\ polls' = 0 /\ exitCode' = -1 /\ ret' = "none"
    /\ tool' = "none" /\ unread' = 0 /\ blocked' = FALSE /\ stale' = FALSE
    /\ SetBar(NoBar)

\* The records of the program's end through the main menu (lines 799, 1025-1026)
SessionStart == Rec("SESSION", "SESSION_START", "")
SessionEnd == Rec("SESSION", "SESSION_END", "")
\* The operation names of the action menus
MenuOp(dt) ==
    IF dt = "1" THEN "RECORDING_ACTION" ELSE IF dt = "2" THEN "BAGS_ACTION" ELSE "LOGS_ACTION"
ListOp(p) ==
    IF p = "copy" THEN "COPY_RECORDINGS"
    ELSE IF p = "list" THEN "LIST_RECORDINGS" ELSE "DELETE_RECORDINGS"
JobOfType(dt) == IF dt = "2" THEN "bags" ELSE IF dt = "3" THEN "logs" ELSE "folder"
Names_of(sel) == [i \in 1..Len(sel) |-> sel[i].name]

\* main up to its first menu (lines 732-780): the name and the connection type are
\* checked, the session is opened
main_begin(valid) ==
    /\ mpc = "begin"
    /\ IF valid
       THEN /\ log' = log \o <<SessionStart, Rec("USER_OP", "LOGIN", "SUCCESS")>>
            /\ mpc' = "menu"
       ELSE /\ mpc' = "returned"
            /\ log' = log
    /\ UNCHANGED <<retryVars, now, barVars, kind, pc, jobState, batchVars, sessionVars, watchVars>>

\* One answer to "What would you like to copy?" (lines 782-857); speed_choice is the
\* answer to the speed menu when the choice is 6
main_menu(dt, speed_choice) ==
    /\ mpc = "menu"
    /\ session_operations < MaxOps
    /\ session_operations' = session_operations + 1
    /\ LET sel == Rec("USER_OP", "MENU_SELECTION", "PROCESSING")
       IN  IF dt = "7"
           THEN /\ log' = log \o <<sel, Rec("USER_OP", "EXIT", "SUCCESS"), SessionEnd,
                                    Rec("USER_OP", "SESSION_END", "SUCCESS")>>
                /\ mpc' = "returned"
                /\ UNCHANGED <<speedOpt, successful_operations, data_type, kind>>
           ELSE IF dt = "6"
           THEN /\ speedOpt' = SpeedSetting(speed_choice, speedOpt)
                /\ log' = log \o <<sel, Rec("USER_OP", "SPEED_OPTIMIZATION", "PROCESSING"),
                                    Rec("USER_OP", "SPEED_OPTIMIZATION",
                                        IF speed_choice \in {"1", "2", "3", "4"}
                                        THEN "SUCCESS" ELSE "FAILED")>>
                /\ UNCHANGED <<mpc, successful_operations, data_type, kind>>
           ELSE IF dt \in {"4", "5"}
           THEN /\ successful_operations' = successful_operations + 1
                /\ LET op == IF dt = "4" THEN "NETWORK_TEST" ELSE "DIAGNOSE"
                   IN  log' = log \o <<sel, Rec("USER_OP", op, "PROCESSING"),
                                        Rec("USER_OP", op, "SUCCESS")>>
                /\ UNCHANGED <<mpc, speedOpt, data_type, kind>>
           ELSE IF dt \notin {"1", "2", "3"}
           THEN /\ log' = log \o <<sel, Rec("USER_OP", "MENU_SELECTION", "FAILED")>>
                /\ UNCHANGED <<mpc, speedOpt, successful_operations, data_type, kind>>
           ELSE /\ data_type' = dt
                /\ kind' = JobOfType(dt)
                /\ log' = log \o <<sel, Rec("USER_OP", "DATA_TYPE_SELECTED", "SUCCESS")>>
                /\ mpc' = "actions"
                /\ UNCHANGED <<speedOpt, successful_operations>>
    /\ UNCHANGED <<retryVars, now, barVars, pc, feed, destExists, dirs, prompts, decision,
                   destName, removed, method, sizeFailed, launchOK, launches, linesRead,
                   lastLine, signal, polls, exitCode, ret, benchVars, procVars, destVars>>
    /\ UNCHANGED <<batchVars, purpose, answer, delq, deleted_folders, watchVars>>

\* "return" from inside an action menu (lines 873-876, 989-992, 1011-1014)
ExitsFromActions_with_session_end == <<SessionEnd, Rec("USER_OP", "SESSION_END", "SUCCESS")>>
ExitsFromActions == <<>>

\* One answer to "Actions for ..." (lines 860-1022), up to the call the action makes
main_action(action) ==
    /\ mpc = "actions"
    /\ session_operations < MaxOps
    /\ session_operations' = session_operations + 1
    /\ LET sel == Rec("USER_OP", MenuOp(data_type), "PROCESSING")
           exit == IF data_type = "1" THEN "5" ELSE "3"
           back == IF data_type = "1" THEN "4" ELSE "2"
       IN  IF action = exit
           THEN /\ log' = log \o <<sel, Rec("USER_OP", "EXIT", "SUCCESS")>> \o ExitsFromActions
                /\ mpc' = "returned"
                /\ UNCHANGED <<retryVars, pc, destName, destExists, purpose>>
           ELSE IF action = back
           THEN /\ log' = log \o <<sel, Rec("USER_OP", "RETURN_MENU", "SUCCESS")>>
                /\ mpc' = "menu"
                /\ UNCHANGED <<retryVars, pc, destName, destExists, purpose>>
           ELSE IF data_type = "1" /\ action \in {"1", "2", "3"}
           THEN /\ purpose' = (IF action = "1" THEN "copy"
                               ELSE IF action = "2" THEN "list" ELSE "delete")
                /\ log' = log \o <<sel, Rec("USER_OP", ListOp(purpose'), "PROCESSING")>>
                /\ CallRetry
                /\ mpc' = "ssh"
                /\ UNCHANGED <<pc, destName, destExists>>
           ELSE IF data_type # "1" /\ action = "1"
           THEN /\ log' = log \o <<sel, Rec("USER_OP", ActionName(kind), "PROCESSING")>>
                /\ mpc' = "job"
                /\ pc' = "start"
                /\ destName' = DefaultName(kind)
                /\ destExists' = (DefaultName(kind) \in dirs)
                /\ UNCHANGED <<retryVars, purpose>>
           ELSE /\ log' = Append(log, sel)
                /\ UNCHANGED <<mpc, retryVars, pc, destName, destExists, purpose>>
    /\ UNCHANGED <<now, barVars, kind, feed, dirs, prompts, decision, removed, speedOpt, method,
                   sizeFailed, launchOK, launches, linesRead, lastLine, signal, polls,
                   exitCode, ret, benchVars, procVars, destVars>>
    /\ UNCHANGED <<batchVars, successful_operations, data_type, answer, delq, deleted_folders,
                   watchVars>>

\* The records of an empty folder list (lines 402-404, 882-884, 940-942, 955-957)
NoFolders_silent(connected) == <<>>
NoFolders(connected) ==
    (IF connected THEN <<>> ELSE <<Rec("ACTION", "CONNECT", "FAILED")>>) \o
    <<Rec("USER_OP", ListOp(purpose), "FAILED")>>

\* check_ssh_connection returned inside get_remote_folders_with_sizes (lines 401-408)
main_ssh_returned ==
    /\ mpc = "ssh"
    /\ rpc = "returned"
    /\ IF result.rc = 0
       THEN /\ CallRetry
            /\ mpc' = "listing"
            /\ log' = log
       ELSE /\ RetryGone
            /\ log' = log \o NoFolders(FALSE)
            /\ mpc' = "actions"
    /\ UNCHANGED <<now, barVars, kind, pc, jobState, batchVars, sessionVars, watchVars>>

\* The list command returned (lines 408-419) and main goes on with the folders: listed
\* says that the command printed a line, selection is what the user picked
main_listed(listed, selection) ==
    /\ mpc = "listing"
    /\ rpc = "returned"
    /\ RetryGone
    /\ IF result.rc # 0 \/ ~listed
       THEN /\ log' = log \o NoFolders(TRUE)
            /\ mpc' = "actions"
            /\ UNCHANGED <<batchVars, successful_operations, delq, deleted_folders>>
       ELSE IF purpose = "copy"
       THEN /\ log' = Append(log, Rec("USER_OP", "FOLDER_SELECTION", "PROCESSING"))
            /\ queue' = selection
            /\ copied_folders' = <<>> /\ failed_folders' = <<>>
            /\ mpc' = "loop"
            /\ UNCHANGED <<item, free, successful_operations, delq, deleted_folders>>
       ELSE IF purpose = "list"
       THEN /\ log' = Append(log, Rec("USER_OP", "LIST_RECORDINGS", "SUCCESS"))
            /\ successful_operations' = successful_operations + 1
            /\ mpc' = "actions"
            /\ UNCHANGED <<batchVars, delq, deleted_folders>>
       ELSE /\ log' = Append(log, Rec("USER_OP", "DELETE_SELECTION", "PROCESSING"))
            /\ delq' = Names_of(selection)
            /\ deleted_folders' = <<>>
            /\ mpc' = "delete"
            /\ UNCHANGED <<batchVars, successful_operations>>
    /\ UNCHANGED <<now, barVars, kind, pc, jobState, session_operations, data_type, purpose,
                   answer, watchVars>>

\* copy_bags or copy_logs returned (lines 996-1000, 1018-1022)
main_job_returned ==
    /\ mpc = "job"
    /\ pc = "done"
    /\ IF ret = "True"
       THEN /\ successful_operations' = successful_operations + 1
            /\ log' = Append(log, Rec("USER_OP", ActionName(kind), "SUCCESS"))
       ELSE UNCHANGED <<successful_operations, log>>
    /\ mpc' = "actions"
    /\ JobGone
    /\ UNCHANGED <<retryVars, now, kind, feed, destExists, dirs, destName, speedOpt, benchVars,
                   alive, batchVars, session_operations, data_type, purpose, answer, delq,
                   deleted_folders, watchVars>>

\* The answer to "Delete copied folder(s) from remote now?" (lines 924-935)
main_confirm(typed) ==
    /\ mpc = "confirm"
    /\ answer' = typed
    /\ LET confirm == Lower(Strip(typed))
       IN  IF Confirmed(confirm)
           THEN /\ log' = log \o <<Rec("USER_OP", "DELETE_CONFIRMATION", "PROCESSING"),
                                    Rec("USER_OP", "DELETE_INITIATED", "PROCESSING")>>
                /\ delq' = copied_folders
                /\ mpc' = "delete"
           ELSE /\ log' = log \o <<Rec("USER_OP", "DELETE_CONFIRMATION", "PROCESSING"),
                                    Rec("USER_OP", "DELETE_DECLINED", "SUCCESS")>>
                /\ delq' = delq
                /\ mpc' = "actions"
    /\ UNCHANGED <<retryVars, now, barVars, kind, pc, jobState, batchVars, session_operations,
                   successful_operations, data_type, purpose, deleted_folders, watchVars>>

\* One iteration of a delete loop up to the rm command (lines 929-931, 969-972)
main_delete_next ==
    /\ mpc = "delete"
    /\ delq # <<>>
    /\ log' = Append(log, Rec("FILE_OP", "DELETE_START", "STARTED"))
    /\ CallRetry
    /\ mpc' = "deleting"
    /\ UNCHANGED <<now, barVars, kind, pc, jobState, batchVars, sessionVars, watchVars>>

\* What main records after delete_remote_folder (lines 932, 973-974)
AfterDelete_checked(rc) ==
    IF rc = 0 THEN <<Rec("FILE_OP", "DELETE_SUCCESS", "SUCCESS")>> ELSE <<>>
AfterDelete(rc) == <<Rec("FILE_OP", "DELETE_SUCCESS", "SUCCESS")>>

\* delete_remote_folder's command returned (lines 722-728) and the loop records the
\* folder (lines 932, 973-974)
main_delete_returned ==
    /\ mpc = "deleting"
    /\ rpc = "returned"
    /\ log' = log \o <<Rec("ACTION", "DELETE", IF result.rc = 0 THEN "SUCCESS" ELSE "FAILED")>>
                  \o AfterDelete(result.rc)
    /\ deleted_folders' = IF purpose = "delete" THEN Append(deleted_folders, Head(delq))
                          ELSE deleted_folders
    /\ delq' = Tail(delq)
    /\ RetryGone
    /\ mpc' = "delete"
    /\ UNCHANGED <<now, barVars, kind, pc, jobState, batchVars, session_operations,
                   successful_operations, data_type, purpose, answer, watchVars>>

\* A delete loop is over (lines 933, 976-978)
main_delete_done ==
    /\ mpc = "delete"
    /\ delq = <<>>
    /\ IF purpose = "copy"
       THEN /\ log' = Append(log, Rec("USER_OP", "DELETE_COMPLETED", "SUCCESS"))
            /\ UNCHANGED successful_operations
       ELSE IF deleted_folders # <<>>
       THEN /\ log' = Append(log, Rec("USER_OP", "DELETE_COMPLETED", "SUCCESS"))
            /\ successful_operations' = successful_operations + 1
       ELSE UNCHANGED <<log, successful_operations>>
    /\ mpc' = "actions"
    /\ UNCHANGED <<retryVars, now, barVars, kind, pc, jobState, batchVars, session_operations,
                   data_type, purpose, answer, delq, deleted_folders, watchVars>>

\* A session from the start of main, with rsync pinned, on a machine where the
\* transfer prints nothing the job parses and nobody interrupts
InitMenu ==
    /\ RetryIdle
    /\ now = StartClock
    /\ kind = "folder" /\ pc = "idle" /\ feed = PlainLines /\ destExists = FALSE
    /\ dirs = {} /\ prompts = 0
    /\ destName = <<>> /\ speedOpt = "rsync"
    /\ JobFresh
    /\ SetBarOf(NoBar)
    /\ mpc = "begin" /\ queue = <<>> /\ item = NoItem /\ free = 0
    /\ copied_folders = <<>> /\ failed_folders = <<>>
    /\ NoSession /\ NoWatch
\* The machine of a session: the size command works, any other remote command works
\* at once or fails on every attempt
Outcomes_of_command ==
    IF pc = "sizing" THEN {0} ELSE IF attempt = 0 THEN {0, 1} ELSE {1}
NextMenu ==
    \/ \E valid \in BOOLEAN : main_begin(valid)
    \/ \E dt \in DataTypes : main_menu(dt, "4")
    \/ \E action \in Actions : main_action(action)
    \/ main_ssh_returned
    \/ \E listed \in BOOLEAN, selection \in MenuSelections : main_listed(listed, selection)
    \/ main_job_returned
    \/ \E typed \in Answers : main_confirm(typed)
    \/ main_delete_next
    \/ main_delete_returned
    \/ main_delete_done
    \/ \E f \in FreeSpaces : main_next_item(f)
    \/ main_copy_returned
    \/ main_summary
    \/ copy_start
    \/ \E choice \in {"s", "o"} : check_folder_overwrite_prompt(choice, <<>>)
    \/ copy_resolve(TRUE)
    \/ \E rc \in Outcomes_of_command :
          run_with_retry_attempt(rc) /\ UNCHANGED <<jobVars, barVars, mainVars, sessionVars, watchVars, destVars>>
    \/ run_with_retry_exhausted /\ UNCHANGED <<jobVars, barVars, mainVars, sessionVars, watchVars, destVars>>
    \/ copy_folder_sized([ok |-> TRUE, n |-> KnownSize])
    \/ copy_folder_select
    \/ copy_launch(TRUE, 0)
    \/ \E rc \in {0, 1} : copy_transfer_end(rc)
    \/ copy_report
SpecMenu == InitMenu /\ [][NextMenu]_vars

\* auto_git_push (src/auto_git_push.py). A tree gives st_mtime_ns of each file, 0 for
\* a file that does not exist; "git" is a file under .git, which the walk prunes.
DEBOUNCE_SECONDS == 3
MaxMtime == 2           \* modification times are 1..MaxMtime
MaxWatchTicks == 14     \* the watcher is followed for this many ticks
Mtimes == 0..MaxMtime
Trees == [Files -> Mtimes]
Ignored == {"git"}

\* a ^ b on naturals
RECURSIVE Xor(_, _)
Xor(a, b) ==
    IF a = 0 THEN b
    ELSE IF b = 0 THEN a
    ELSE 2 * Xor(a \div 2, b \div 2) + ((a + b) % 2)
RECURSIVE XorAll(_, _)
XorAll(fs, t) ==
    IF fs = {} THEN 0
    ELSE LET f == CHOOSE x \in fs : TRUE IN Xor(t[f], XorAll(fs \ {f}, t))
\* total ^= int(p.stat().st_mtime_ns) over the files outside IGNORE_DIRS
walk_mtimes(t) == XorAll({f \in Files \ Ignored : t[f] # 0}, t)

\* if time.time() - last_change >= DEBOUNCE_SECONDS (last_change may be float('inf'))
Debounced_always(t, lc) == TRUE
Debounced(t, lc) == lc.k = "num" /\ t - lc.v >= DEBOUNCE_SECONDS * TicksPerSecond

\* One iteration of main's "while True" (lines 126-135): the sleep of half a second
\* (and d more ticks spent in the walk and in the last autopush), the walk of the
\* tree as it is by then (t), the comparison, the debounce test
watch_iteration(t, d) ==
    /\ wpc = "watch"
    /\ now + 1 + d <= StartClock + MaxWatchTicks
    /\ now' = now + 1 + d
    /\ tree' = t
    /\ LET h == walk_mtimes(t)
           seen == h # last_hash
           lc == IF seen THEN Num(now') ELSE last_change
       IN  /\ last_hash' = h
           /\ lastDetect' = IF seen THEN now' ELSE lastDetect
           /\ IF Debounced(now', lc)
              THEN /\ pushes' = pushes + 1
                   /\ last_change' = Infinity
                   /\ changed' = FALSE
              ELSE /\ pushes' = pushes
                   /\ last_change' = lc
                   /\ changed' = (changed \/ seen)
    /\ UNCHANGED wpc
    /\ UNCHANGED <<retryVars, jobVars, barVars, mainVars, sessionVars, destVars>>

\* main up to its loop (lines 117-124), in a git repository with any tree
InitWatch ==
    /\ RetryIdle
    /\ now = StartClock
    /\ kind = "none" /\ pc = "off" /\ feed = {} /\ destExists = FALSE
    /\ dirs = {} /\ prompts = 0
    /\ destName = <<>> /\ speedOpt = "auto"
    /\ JobFresh
    /\ SetBarOf(NoBar)
    /\ mpc = "off" /\ queue = <<>> /\ item = NoItem /\ free = 0
    /\ copied_folders = <<>> /\ failed_folders = <<>>
    /\ NoSession
    /\ wpc = "watch" /\ tree \in Trees /\ last_hash = walk_mtimes(tree)
    /\ last_change = Num(now) /\ pushes = 0 /\ lastDetect = -1 /\ changed = FALSE
NextWatch ==
    \E t \in Trees, d \in 0..1 : watch_iteration(t, d)
SpecWatch == InitWatch /\ [][NextWatch]_vars

\* A ProgressBar on its own: built for any total size, then update(), display() and
\* finish() called with any byte counts at any times
ExampleTotal == 1000 * 1000 * 1000
Totals == {0, KnownSize, ExampleTotal}
ByteCounts(T) == {0, T \div 4, T \div 2, T} \cup (IF T <= KnownSize THEN {T + T \div 2} ELSE {})
TenSeconds == 10 * TicksPerSecond
Waits == {0, 1, TenSeconds}
MaxBarTicks == 21       \* the tracker is followed for this many ticks
MaxRenders == 3         \* and for this many status lines

bar_update(bytes, d) ==
    /\ pc = "bar" /\ finished = 0 /\ renders < MaxRenders
    /\ now + d <= StartClock + MaxBarTicks
    /\ now' = now + d
    /\ SetBar(ProgressBar_update(Bar, bytes, now'))
    /\ UNCHANGED <<retryVars, jobVars, mainVars, sessionVars, watchVars, destVars>>
bar_display(d) ==
    /\ pc = "bar" /\ finished = 0 /\ renders < MaxRenders
    /\ now + d <= StartClock + MaxBarTicks
    /\ now' = now + d
    /\ SetBar(ProgressBar_display(Bar, now'))
    /\ UNCHANGED <<retryVars, jobVars, mainVars, sessionVars, watchVars, destVars>>
bar_finish(d) ==
    /\ pc = "bar" /\ finished = 0
    /\ now + d <= StartClock + MaxBarTicks
    /\ now' = now + d
    /\ SetBar(ProgressBar_finish(Bar, now'))
    /\ UNCHANGED <<retryVars, jobVars, mainVars, sessionVars, watchVars, destVars>>

InitBar ==
    /\ RetryIdle
    /\ now = StartClock
    /\ kind = "none" /\ pc = "bar" /\ feed = {} /\ destExists = FALSE
    /\ dirs = {} /\ prompts = 0
    /\ destName = <<>> /\ speedOpt = "auto"
    /\ JobFresh
    /\ \E T \in Totals : SetBarOf(ProgressBar_init(T, now))
    /\ NoBatch
NextBar ==
    \/ \E d \in Waits : \E bytes \in ByteCounts(total_size) : bar_update(bytes, d)
    \/ \E d \in Waits : bar_display(d)
    \/ \E d \in Waits : bar_finish(d)
SpecBar == InitBar /\ [][NextBar]_vars

(***************************************************************************)
(* Properties of run_with_retry (under SpecRetry)                          *)
(***************************************************************************)
RECURSIVE SumV(_)
SumV(ev) == IF ev = <<>> THEN 0 ELSE Head(ev).v + SumV(Tail(ev))

RunsSoFar == Runs(events)
AllFailed == \A i \in 1..Len(RunsSoFar) : RunsSoFar[i].v # 0
\* The number of command invocations among the first i events
RunsBefore(i) == Len(Runs(SubSeq(events, 1, i - 1)))

\* C1: with max_retries = N >= 1 and a command that fails every time, run_with_retry
\* never raises, never invokes the command more than N times, and when it returns it
\* has invoked it exactly N times and returns the N-th invocation's result, whose
\* exit status is non-zero.
C1_AlwaysFailingRunsNTimes ==
    (max_retries >= 1 /\ AllFailed) =>
        /\ rpc # "raised"
        /\ Len(RunsSoFar) <= max_retries
        /\ (rpc = "loop" /\ Len(RunsSoFar) < max_retries => ENABLED NextRetry)
        /\ rpc = "returned" =>
              /\ Len(RunsSoFar) = max_retries
              /\ result.idx = max_retries
              /\ result.rc = RunsSoFar[max_retries].v
              /\ result.rc # 0
C1_Witness ==
    /\ rpc = "returned" /\ max_retries = MAX_RETRIES /\ AllFailed
    /\ Len(RunsSoFar) = MAX_RETRIES /\ result.idx = MAX_RETRIES /\ result.rc # 0

C3_StopsAtFirstSuccess ==
    /\ Len(RunsSoFar) <= max_retries
    /\ \A k \in 1..Len(RunsSoFar) :
          RunsSoFar[k].v = 0 =>
              /\ k = Len(RunsSoFar)
              /\ events[Len(events)] = [t |-> "run", v |-> 0]
              /\ rpc = "returned"
              /\ result = [idx |-> k, rc |-> 0]
C3_Witness ==
    /\ rpc = "returned" /\ result = [idx |-> 2, rc |-> 0]
    /\ Len(RunsSoFar) = 2 /\ RunsSoFar[1].v # 0 /\ max_retries > 2

(***************************************************************************)
(* Properties of the tracker and the stream loop (under SpecStream)        *)
(***************************************************************************)
\* round(n / d) for d > 0 (ties upward; the claims allow one byte of tolerance)
Round(n, d) == (2 * n + d) \div (2 * d)
InLog(r) == \E i \in 1..Len(log) : log[i] = r

\* C4: within a copy_folder job the tracker's current_size never decreases from one
\* state to the next, whatever byte counts update() is called with.
C4_CurrentSizeNeverDecreases ==
    [][(kind = "folder" /\ pc \in {"stream", "scp"}) => current_size' >= current_size]_vars

\* C5: whenever total_size is known (> 0), current_size <= total_size.
C5_CurrentSizeWithinTotal ==
    total_size > 0 => current_size <= total_size

\* The unit markers rsync prints after a rate
UnitMarkers == {"MB/s", "kB/s"}
HasUnitMarker(line) == \E i \in 1..Len(line.toks) : line.toks[i].k \in UnitMarkers
WellFormedPercents(line) == {i \in 1..Len(line.toks) : line.toks[i].k = "pct"}

\* C6: with the total size T known, a line of copy_folder's transfer that holds a
\* well-formed 'NN%' token and a throughput-unit marker makes the loop hand the
\* tracker a byte count at most 1 away from round(T * NN / 100).
C6_PercentLineGivesBytes ==
    (kind = "folder" /\ linesRead > 0 /\ total_size > 0
        /\ WellFormedPercents(lastLine) # {} /\ HasUnitMarker(lastLine)) =>
    /\ signal.k = "update"
    /\ \E i \in WellFormedPercents(lastLine) :
          Abs(signal.v - Round(total_size * lastLine.toks[i].v, 100)) <= 1

\* The byte counts that follow the word "received" in a line
ReceivedCounts(line) ==
    {line.toks[i].v : i \in {j \in 2..Len(line.toks) :
                               line.toks[j].k = "digits" /\ line.toks[j - 1].k = "received"}}

\* C7: a line of copy_folder's transfer that contains both 'bytes sent' and 'bytes
\* received', with a byte count right after the word 'received', makes the loop hand
\* that byte count to the tracker.
C7_SummaryLineGivesBytes ==
    (kind = "folder" /\ linesRead > 0
        /\ HasBytesSent(lastLine) /\ HasBytesReceived(lastLine)
        /\ ReceivedCounts(lastLine) # {}) =>
    /\ signal.k = "update"
    /\ signal.v \in ReceivedCounts(lastLine)

\* A line with no token ending in '%' and without the pair of summary markers
Quiet(line) ==
    /\ \A i \in 1..Len(line.toks) : ~EndsWithPercent(line.toks[i])
    /\ ~(HasBytesSent(line) /\ HasBytesReceived(line))

\* C8: every time the stream loop (of copy_folder, copy_logs or copy_bags) processes
\* a line with no '%' token and without the 'bytes sent'/'bytes received' markers, it
\* gives no signal and leaves the tracker as it was: current_size, last_update and
\* the status lines written are unchanged, and the loop goes on.
C8_QuietLineIsNoOp ==
    [][(pc = "stream" /\ linesRead' = linesRead + 1 /\ Quiet(lastLine')) =>
          (signal' = None /\ UNCHANGED barVars /\ pc' = "stream")]_vars
C8_Witness ==
    /\ pc = "stream" /\ linesRead = 2 /\ Quiet(lastLine) /\ NonBlank(lastLine)
    /\ signal = None /\ current_size > 0 /\ renders = 1

\* A line the parser cannot use: a non-numeric percent token, a percent token with no
\* 'MB/s' marker, or neither of the two shapes
Malformed(line) ==
    \/ \E i \in 1..Len(line.toks) : line.toks[i].k \in {"badpct", "midpct"}
    \/ (\E i \in 1..Len(line.toks) : line.toks[i].k = "pct") /\ ~HasMBs(line)
    \/ Quiet(line)

\* C9: no line raises out of the stream loop, and the job's result is decided by the
\* transfer's exit code alone: the job returns True exactly when the exit code is 0,
\* whatever lines were read.
C9_OutcomeFromExitCodeOnly ==
    /\ pc # "crashed"
    /\ pc \in {"launch", "stream", "scp", "report"} => ret = "none"
    /\ pc = "done" => ret = PyBool(exitCode = 0)
C9_Witness ==
    /\ pc = "done" /\ ret = "True" /\ exitCode = 0 /\ linesRead = MaxLines
    /\ Malformed(lastLine)
    /\ lastLine.toks = <<W("badpct"), Tok("pct", 50), W("MB/s")>>

(***************************************************************************)
(* Properties of the copy job (under Spec)                                 *)
(***************************************************************************)
FailedLogged ==
    /\ InLog(Rec("ACTION", ActionName(kind), "FAILED"))
    /\ InLog(Rec("FILE_OP", OpName(kind, "FAILED"), "FAILED"))
LaunchFailed == launches > 0 /\ ~launchOK

\* C10 as stated: a finished job has returned failure and logged a FAILED record
\* whenever its transfer could not be launched, its transfer's exit code is non-zero,
\* or its sizing command failed.
C10_FailedOnAnyFailure ==
    (pc = "done" /\ (LaunchFailed \/ exitCode > 0 \/ sizeFailed)) =>
        (ret = "False" /\ FailedLogged)

\* C10 amended: a finished job has returned failure and logged its FAILED records
\* whenever the shell could not start the transfer command or the transfer's exit
\* code is non-zero.
C10_FailedOnTransferFailure ==
    (pc = "done" /\ (LaunchFailed \/ exitCode > 0)) =>
        (ret = "False" /\ FailedLogged)
C10_Witness ==
    /\ pc = "done" /\ kind = "folder" /\ ~sizeFailed /\ launchOK /\ exitCode = 1
    /\ ret = "False" /\ FailedLogged

SuccessLogged ==
    /\ InLog(Rec("ACTION", ActionName(kind), "SUCCESS"))
    /\ InLog(Rec("FILE_OP", OpName(kind, IF kind = "folder" THEN "COMPLETE" ELSE "SUCCESS"),
                 "SUCCESS"))
AfterSizing == {"select", "bench", "launch", "stream", "scp", "report", "done", "raised"}
Transfer == {"launch", "stream", "scp", "report", "done", "raised"}

\* copy_folder is past its sizing step and the sizing command had failed on all its
\* retries: the size was neither logged as read nor as unparsable
SizingCommandFailed ==
    /\ kind = "folder" /\ pc \in AfterSizing /\ decision # <<"skip">>
    /\ ~InLog(Rec("FILE_OP", "COPY_SIZE_CHECK", "SUCCESS"))
    /\ ~InLog(Rec("FILE_OP", "COPY_SIZE_CHECK", "FAILED"))

\* C11: when the sizing command fails on all MAX_RETRIES attempts, run_with_retry
\* returns (it does not raise) and copy_folder goes on: the total size is 0 whatever
\* the command printed, a method is selected, the transfer is launched once, and the
\* finished job returns True, with SUCCESS logged, exactly when the transfer exits 0.
C11_SizingFailureDoesNotAbort ==
    /\ pc = "sizing" => rpc # "raised"
    /\ (pc = "sizing" /\ rpc = "returned" /\ result.rc # 0) =>
          /\ result.idx = MAX_RETRIES
          /\ ENABLED (\E out \in SizeOutputs : copy_folder_sized(out))
    /\ SizingCommandFailed =>
          /\ total_size = 0 /\ sizeFailed
          /\ (pc \in Transfer /\ (pc = "raised" => launches > 0)) => method \in {"rsync", "scp"}
          /\ pc \in {"report", "done"} => launches = 1
          /\ pc = "done" =>
                /\ ret = PyBool(exitCode = 0)
                /\ SuccessLogged <=> exitCode = 0
                /\ FailedLogged <=> exitCode # 0
C11_Witness ==
    /\ SizingCommandFailed /\ pc = "done" /\ total_size = 0 /\ method = "scp"
    /\ launches = 1 /\ exitCode = 0 /\ ret = "True" /\ SuccessLogged

\* C12: a job is reported Failed only after the transfer command has been launched
\* MAX_RETRIES times: never after a single failed launch while retries remain.
C12_TransferRetriedBeforeFailed ==
    (pc = "done" /\ ret = "False" /\ FailedLogged) => launches = MAX_RETRIES

\* C13: once the user has chosen Skip for an existing destination, the job launches
\* nothing: run_with_retry is not called for the size, no method is benchmarked or
\* selected, no transfer is launched, no ProgressBar is built, the destination is not
\* removed and no directory is created; the job logs one SKIPPED record and returns
\* False.
C13_SkipLaunchesNothing ==
    decision = <<"skip">> =>
        /\ destExists
        /\ pc \in {"resolved", "done"}
        /\ rpc = "idle" /\ events = <<>>
        /\ method = "none"
        /\ launches = 0 /\ linesRead = 0 /\ polls = 0 /\ exitCode = -1
        /\ SetBarOf(NoBar)
        /\ ~removed /\ dirs = {DefaultName(kind)} /\ destName = DefaultName(kind)
        /\ pc = "resolved" => ret = "none" /\ log = <<>>
        /\ pc = "done" =>
              /\ ret = "False"
              /\ log = <<Rec("FILE_OP", OpName(kind, "SKIPPED"), "USER_SKIP")>>
C13_Witness ==
    /\ decision = <<"skip">> /\ pc = "done" /\ ret = "False" /\ kind = "logs"
    /\ launches = 0 /\ ~removed /\ dirs = {<<"logs">>}

\* C14: when the user chose Overwrite, rmtree has been called on the existing
\* destination in every state in which the transfer has been launched, and the step
\* that calls rmtree is taken only for an Overwrite decision, before any command of
\* the job has run: no sizing command, no transfer launch, in that step or before it.
C14_RemovalBeforeLaunch ==
    /\ [](decision = <<"overwrite">> /\ (launches > 0 \/ pc \in Transfer) => removed)
    /\ [][removed' # removed =>
            /\ removed' /\ decision = <<"overwrite">>
            /\ launches = 0 /\ launches' = 0
            /\ events = <<>> /\ events' = <<>>
            /\ pc' \in {"sizing", "launch"}]_vars
C14_Witness ==
    /\ decision = <<"overwrite">> /\ destExists /\ removed
    /\ launches = 1 /\ launchOK /\ pc = "stream" /\ linesRead = 1

\* The name the user typed at the rename prompt: what follows "rename:" in the decision
EnteredName == SubSeq(decision, 3, Len(decision))

\* C15: after a Rename decision with the name N, the destination used by the job has
\* N as its last component, for every N the prompt accepts, and the original
\* destination is neither removed nor replaced.
C15_RenameUsesEnteredName ==
    (IsRename(decision) /\ pc \notin {"start", "prompt", "resolved"}) =>
        /\ destName = EnteredName
        /\ EnteredName \in dirs
        /\ ~removed /\ DefaultName(kind) \in dirs

(***************************************************************************)
(* Properties of check_folder_overwrite (under SpecPrompt)                 *)
(***************************************************************************)
Asked == pc \notin {"start", "prompt"}
ValidDecision(d) ==
    \/ d \in {<<"skip">>, <<"overwrite">>}
    \/ IsRename(d) /\ Len(d) > 2
\* Everything but the count of rejected answers, the position and the decision
besidesPrompt == <<retryVars, now, barVars, kind, feed, destExists, dirs, destName, removed,
                   speedOpt, method, sizeFailed, launchOK, launches, linesRead, lastLine,
                   signal, polls, exitCode, ret, log, benchVars, procVars, mainVars, sessionVars, watchVars, destVars>>

\* C16: check_folder_overwrite returns 'proceed', without asking, exactly when the
\* destination does not exist; when it exists the function asks, an answer it turns
\* down (an invalid choice, an empty rename name) changes nothing but the count of
\* rejected answers, and it returns only Skip, Overwrite or a Rename with a non-empty
\* name; with a user who eventually gives a valid answer, every prompt is followed by
\* the function's return.
C16_PromptLoop ==
    /\ [](Asked => (decision = <<"proceed">> <=> ~destExists))
    /\ [](Asked /\ destExists => ValidDecision(decision))
    /\ [](decision = <<"proceed">> => prompts = 0)
    /\ [][pc = "start" => (pc' = IF destExists THEN "prompt" ELSE "resolved")]_<<pc, prompts>>
    /\ [][IF pc = "prompt"
          THEN /\ UNCHANGED besidesPrompt
               /\ \/ pc' = "prompt" /\ prompts' = prompts + 1 /\ decision' = decision
                  \/ pc' = "resolved" /\ prompts' = prompts /\ ValidDecision(decision')
          ELSE TRUE]_<<pc, prompts>>
    /\ (pc = "prompt" ~> pc = "resolved")
C16_Witness ==
    /\ pc = "resolved" /\ destExists /\ prompts = MaxPrompts
    /\ decision = <<"rename", ":", "foo2">>

(***************************************************************************)
(* Properties of the job's stages (under Spec)                             *)
(***************************************************************************)
\* The stage of the job at each position: 1 ResolvingDestination, 2 SizingSource,
\* 3 SelectingMethod, 4 Transferring, 5 Finalizing (finish() called, outcome not yet
\* logged), 6 a terminal state
Stage(p) ==
    IF p \in {"start", "prompt", "resolved"} THEN 1
    ELSE IF p = "sizing" THEN 2
    ELSE IF p \in {"select", "bench"} THEN 3
    ELSE IF p \in {"launch", "stream", "scp"} THEN 4
    ELSE IF p = "report" THEN 5
    ELSE 6
SkippedLogged == InLog(Rec("FILE_OP", OpName(kind, "SKIPPED"), "USER_SKIP"))
Outcomes ==
    (IF SuccessLogged /\ pc = "done" /\ ret = "True" THEN {"Succeeded"} ELSE {}) \cup
    (IF FailedLogged /\ pc = "done" /\ ret = "False" THEN {"Failed"} ELSE {}) \cup
    (IF SkippedLogged /\ pc = "done" /\ ret = "False" THEN {"Skipped"} ELSE {})

\* C17: a copy_folder job that is not left by an exception moves from each stage to
\* the same stage or the next one, in the order ResolvingDestination, SizingSource,
\* SelectingMethod, Transferring, Finalizing, terminal; the only other step is the
\* Skip, from ResolvingDestination to the terminal state, and a Skip decision takes
\* no other step; a running job has no outcome, a finished job has exactly one of
\* Succeeded, Failed, Skipped, and it is Succeeded exactly when the transfer's exit
\* code is 0.
C17_StagesInOrder ==
    /\ [][(kind = "folder" /\ pc' # "raised") =>
            /\ \/ Stage(pc') = Stage(pc)
               \/ Stage(pc') = Stage(pc) + 1 /\ Stage(pc) < 5 /\ decision # <<"skip">>
               \/ Stage(pc) = 5 /\ pc' = "done"
               \/ pc = "resolved" /\ decision = <<"skip">> /\ pc' = "done"
            /\ pc = "done" => pc' = "done"]_vars
    /\ [](kind = "folder" /\ Stage(pc) < 6 =>
            ret = "none" /\ ~SuccessLogged /\ ~FailedLogged /\ ~SkippedLogged)
    /\ [](kind = "folder" /\ pc = "done" =>
            /\ Cardinality(Outcomes) = 1
            /\ Outcomes = {"Succeeded"} <=> exitCode = 0
            /\ Outcomes = {"Skipped"} <=> decision = <<"skip">>)
C17_Witness ==
    /\ kind = "folder" /\ pc = "done" /\ Outcomes = {"Succeeded"} /\ exitCode = 0
    /\ decision = <<"overwrite">> /\ ~sizeFailed /\ method = "rsync" /\ linesRead = MaxLines

(***************************************************************************)
(* Properties of the tracker's calls (under SpecStream)                    *)
(***************************************************************************)
\* C18: finish() has not been called while the transfer runs; the step that leaves
\* the transfer, by the end of the process or by an exception, calls it; from then on
\* it has been called exactly once, no update() or display() follows it (the
\* tracker's fields and its output no longer change), and an outcome is logged only
\* after it.
C18_FinishExactlyOnce ==
    /\ [](pc \in {"launch", "stream", "scp"} => finished = 0)
    /\ [](pc \in {"report", "done", "raised"} => finished = 1)
    /\ [](SuccessLogged \/ FailedLogged => finished = 1)
    /\ [][(pc \in {"stream", "scp"} /\ pc' \notin {"stream", "scp"}) =>
            (finished = 0 /\ finished' = 1)]_vars
    /\ [][(finished >= 1) =>
            UNCHANGED <<current_size, last_update, renders, lastRender, finished>>]_vars
C18_Witness ==
    /\ pc = "raised" /\ finished = 1 /\ linesRead = MaxLines /\ renders >= 1
    /\ signal.k = "update" /\ ~SuccessLogged /\ ~FailedLogged

\* C19: with the total size 0 or unknown, every line the stream loop takes for a
\* percent line (it hands the tracker a byte count) makes the tracker write a status
\* line.
C19_PercentLineRendersWithoutTotal ==
    [][(pc = "stream" /\ linesRead' = linesRead + 1 /\ total_size <= 0
          /\ signal'.k \in {"update", "set"}) =>
       (renders' = renders + 1)]_vars

\* The stream loop of copy_folder calls update() in this step
UpdateFromLine ==
    kind = "folder" /\ pc = "stream" /\ linesRead' = linesRead + 1 /\ signal'.k = "update"
\* The scp wait loop calls update() in this step
UpdateFromPoll ==
    pc = "scp" /\ polls' = polls + 1 /\ now - start_time > 0 /\ total_size > 0

\* C20: update() lets display() run (and sets last_update) only when at least one
\* second has passed since the last time it did, so two renders triggered by update()
\* are at least a second apart: an update that comes sooner writes nothing, and in
\* the rsync loop, where every status line comes from update(), at most one line is
\* written per call and two written lines are at least a second apart. Every
\* update() records its byte count in current_size, whether it renders or not.
C20_UpdateThrottled ==
    /\ [][(last_update' # last_update) =>
            /\ UpdateFromLine \/ UpdateFromPoll
            /\ last_update' = (IF UpdateFromLine THEN now' ELSE now)
            /\ last_update' - last_update >= TicksPerSecond]_vars
    /\ [][(UpdateFromLine /\ now' - last_update < TicksPerSecond) =>
            UNCHANGED <<last_update, renders, lastRender>>]_vars
    /\ [][(kind = "folder" /\ pc = "stream" /\ renders' # renders) =>
            /\ UpdateFromLine
            /\ renders' = renders + 1
            /\ lastRender' = last_update'
            /\ lastRender = -1 \/ lastRender' - lastRender >= TicksPerSecond]_vars
    /\ [][UpdateFromLine => (current_size' = signal'.v)]_vars
    /\ [][UpdateFromPoll =>
            (current_size' = EstimatedBytes(now - start_time, total_size))]_vars
C20_Witness ==
    /\ kind = "folder" /\ pc = "stream" /\ linesRead = MaxLines /\ total_size > 0
    /\ signal.k = "update" /\ current_size = signal.v /\ current_size = total_size
    /\ renders = 1 /\ lastRender = last_update /\ now - last_update = 1

(***************************************************************************)
(* Properties of the rendered status (under SpecStream and SpecBar)        *)
(***************************************************************************)
\* C21: the percentage on every status line a job's tracker has written is between
\* 0 and 100 (0 and 1000 tenths), whatever byte counts the lines produced.
C21_RenderedPercentInRange ==
    renders > 0 =>
        /\ shown.percent.k = "num"
        /\ shown.percent.v >= 0 /\ shown.percent.v <= 1000

\* C22: every status line shows the throughput current_size / elapsed and the ETA
\* (total_size - current_size) / throughput in whole seconds, that is (total -
\* current) * elapsed / current truncated toward zero; with total 1,000,000,000,
\* current 500,000,000 and 10 s elapsed they are 50,000,000 B/s and exactly 10 s.
C22_ThroughputAndEta ==
    [][(renders' = renders + 1) =>
         LET c == current_size'
             T == total_size'
             e == now' - start_time'
             v == shown'.speed.v
             q == shown'.eta.v
         IN  /\ e > 0 /\ T > 0 /\ shown'.speed.k = "num"
             /\ (T = 1000000000 /\ c = 500000000 /\ e = 10 * TicksPerSecond) =>
                    (shown'.speed = Num(50000000) /\ shown'.eta = Num(10))
             /\ (T <= KnownSize) =>
                    /\ v * e <= c * TicksPerSecond /\ c * TicksPerSecond < (v + 1) * e
                    /\ (c > 0) => (shown'.eta.k = "num")
                    /\ (c > 0 /\ c <= T) =>
                          /\ q * c * TicksPerSecond <= (T - c) * e
                          /\ (T - c) * e < (q + 1) * c * TicksPerSecond
                    /\ (c > T) =>
                          /\ (-q) * c * TicksPerSecond <= (c - T) * e
                          /\ (c - T) * e < (1 - q) * c * TicksPerSecond]_vars
C22_Witness ==
    /\ pc = "bar" /\ total_size = 1000000000 /\ current_size = 500000000
    /\ now - start_time = 10 * TicksPerSecond /\ lastRender = now
    /\ shown.speed = Num(50000000) /\ shown.eta = Num(10)

\* C23: no status line and no closing line holds the result of a division by zero;
\* a status line written while current_size is 0 shows the speed 0 and the ETA '∞';
\* a display() or finish() called when no time has elapsed since the tracker was
\* built, or a display() of a tracker whose total size is 0, prints nothing.
C23_NoDivisionByZero ==
    /\ [](/\ shown.percent # ZeroDivisionError
          /\ shown.speed # ZeroDivisionError
          /\ shown.eta # ZeroDivisionError
          /\ summary # ZeroDivisionError)
    /\ [][(renders' = renders + 1 /\ current_size' = 0) =>
            (shown'.speed = Num(0) /\ shown'.eta = Infinity /\ shown'.percent = Num(0))]_vars
    /\ [][(now' - start_time' <= 0 \/ total_size' = 0) =>
            (renders' = renders /\ shown' = shown)]_vars
    /\ [][(now' - start_time' <= 0) => (summary' = Nothing)]_vars
    /\ [][(finished' = finished + 1 /\ now' - start_time' > 0) =>
            (summary'.k = "num")]_vars
C23_Witness ==
    /\ pc = "bar" /\ total_size = KnownSize /\ current_size = 0 /\ renders = 1
    /\ shown.eta = Infinity /\ shown.speed = Num(0)
    /\ finished = 1 /\ summary.k = "num"


(***************************************************************************)
(* Properties of the method selection and the benchmark (under Spec)       *)
(***************************************************************************)
PastSelection ==
    \/ pc \in {"launch", "stream", "scp", "report", "crashed"}
    \/ pc = "done" /\ decision # <<"skip">>

\* C24: with SPEED_OPTIMIZATION 'rsync' or 'scp', copy_folder never calls
\* test_copy_methods, and the transfer command it starts is the pinned method's; with
\* 'auto' it calls test_copy_methods once, at its selection step, before the transfer.
C24_PinnedMethodSkipsBenchmark ==
    /\ [](kind = "folder" /\ speedOpt \in {"rsync", "scp"} =>
            /\ benchmarks = 0 /\ pc # "bench"
            /\ PastSelection => method = speedOpt
            /\ launches > 0 => tool = speedOpt)
    /\ [](kind = "folder" /\ PastSelection => (benchmarks = 1 <=> speedOpt = "auto"))
    /\ [](benchmarks > 0 => kind = "folder" /\ speedOpt = "auto")
    /\ [][(benchmarks' # benchmarks) =>
            (pc = "select" /\ pc' = "bench" /\ benchmarks' = benchmarks + 1)]_vars
C24_Witness ==
    /\ kind = "folder" /\ speedOpt = "scp" /\ pc = "done" /\ launches = 1
    /\ tool = "scp" /\ method = "scp" /\ benchmarks = 0 /\ exitCode = 0

\* C25: once a method is forced (SPEED_OPTIMIZATION is 'rsync' or 'scp'), the transfer
\* command of every job, copy_folder, copy_logs or copy_bags, is started with that
\* method.
C25_ForcedMethodInEveryTransfer ==
    (launches > 0 /\ speedOpt \in {"rsync", "scp"}) => tool = speedOpt

\* C26: a call of test_copy_methods runs rsync first and scp second, the second
\* whatever the first exited with; it returns only after both, whatever they exited
\* with, and what it returns is 'rsync' when the rsync time it measured is at most
\* the scp time, 'scp' otherwise.
C26_FasterCandidateReturned ==
    /\ [](pc = "bench" =>
            /\ Len(bench) <= 2
            /\ Len(bench) >= 1 => bench[1].tool = "rsync"
            /\ Len(bench) = 2 => bench[2].tool = "scp"
            /\ Len(bench) < 2 =>
                 \A rc \in ExitCodes :
                    ENABLED (\E t \in BenchTimes : test_copy_methods_run(rc, t, FALSE))
            /\ Len(bench) = 2 => ENABLED test_copy_methods_return)
    /\ [][(pc = "bench" /\ pc' \notin {"bench", "raised"}) =>
            /\ Len(bench) = 2
            /\ measured' = [rsync_time |-> bench[1].time, scp_time |-> bench[2].time]
            /\ method' \in {"rsync", "scp"}
            /\ method' = "rsync" <=> bench[1].time <= bench[2].time]_vars
    /\ [](benchmarks > 0 /\ pc \notin {"bench", "raised"} =>
            /\ method \in {"rsync", "scp"}
            /\ method = "rsync" <=> measured.rsync_time <= measured.scp_time)
C26_Witness ==
    /\ pc = "launch" /\ benchmarks = 1
    /\ measured = [rsync_time |-> 2, scp_time |-> 2] /\ method = "rsync"

\* C27: whenever test_copy_methods is not running, whether it returned or an exception
\* raised while a candidate ran has left it, the directory ./speed_test_temp does not
\* exist.
C27_ScratchRemovedOnEveryExit ==
    pc # "bench" => ~scratch


(***************************************************************************)
(* Properties of main's batch loop (under SpecBatch)                       *)
(***************************************************************************)
\* The estimated size of a listed folder in hundreds of bytes: "4.0K" is 4000 bytes,
\* "1.5G" is 1 500 000 000 bytes
EstimatedHundreds(it) ==
    IF it.unit = "K" THEN it.tenths
    ELSE IF it.unit = "M" THEN it.tenths * 1000
    ELSE it.tenths * 1000000
SkipRecords == <<Rec("ACTION", "COPY", "SKIPPED"),
                 Rec("FILE_OP", "COPY_SKIPPED", "INSUFFICIENT_SPACE")>>
RECURSIVE Count(_, _)
Count(sq, r) ==
    IF sq = <<>> THEN 0 ELSE (IF Head(sq) = r THEN 1 ELSE 0) + Count(Tail(sq), r)

\* C28: when the loop takes a selected folder whose estimated size is larger than the
\* free space it reads, that step calls no copy_folder and starts no process, appends
\* the SKIPPED and COPY_SKIPPED/INSUFFICIENT_SPACE records, appends the folder to the
\* failed ones, and leaves the loop running on the rest of the selection: main has not
\* raised, and the next folder, or the summary, is its next step.
C28_InsufficientSpaceSkipsItem ==
    /\ [][(mpc = "loop" /\ queue # <<>> /\ Head(queue).unit \in {"K", "M", "G"}
           /\ item' = Head(queue) /\ EstimatedHundreds(Head(queue)) > free') =>
            /\ pc' = "idle" /\ launches' = 0 /\ alive' = alive
            /\ log' = log \o SkipRecords
            /\ failed_folders' = Append(failed_folders, Head(queue).name)
            /\ copied_folders' = copied_folders
            /\ queue' = Tail(queue)
            /\ mpc' = "loop"]_vars
    /\ [](mpc = "loop" /\ pc = "idle" =>
            IF queue # <<>>
            THEN ENABLED (\E f \in FreeSpaces : main_next_item(f))
            ELSE ENABLED main_summary)
    /\ [](Count(log, SkipRecords[2]) <= Len(failed_folders))
C28_Witness ==
    /\ mpc = "copying" /\ pc = "stream" /\ item.name = "rec_b"
    /\ failed_folders = <<"rec_a">> /\ copied_folders = <<>>
    /\ Count(log, SkipRecords[1]) = 1 /\ Count(log, SkipRecords[2]) = 1
    /\ launches = 1

\* The records that open and close a copy_folder call in main, and the records with
\* which copy_folder ends
Opened == Count(log, Rec("FILE_OP", "COPY_START", "STARTED"))
JobClosed ==
    Count(log, Rec("ACTION", "COPY", "SUCCESS")) + Count(log, Rec("ACTION", "COPY", "FAILED"))
    + Count(log, Rec("FILE_OP", "COPY_SKIPPED", "USER_SKIP"))
MainClosed == Len(copied_folders) + Len(failed_folders) - Count(log, SkipRecords[2])

\* C29: never more than one transfer process is alive; a transfer process is started
\* only when none is alive, every folder taken before has been counted as copied or
\* failed, and every earlier copy_folder call has logged how it ended.
C29_OneTransferAtATime ==
    /\ [](alive \in {0, 1})
    /\ [](alive = 1 => mpc = "copying" /\ pc \in {"stream", "scp", "raised", "crashed"})
    /\ [][(alive' # alive /\ alive' > alive) =>
            /\ alive = 0 /\ alive' = 1
            /\ mpc = "copying" /\ pc = "launch"
            /\ Opened = MainClosed + 1
            /\ JobClosed = MainClosed]_vars
    /\ [][(pc \in {"stream", "scp"} /\ pc' = "report") => (alive = 1 /\ alive' = 0)]_vars
C29_Witness ==
    /\ alive = 1 /\ pc = "scp" /\ item.name = "rec_b"
    /\ copied_folders = <<"rec_a">> /\ failed_folders = <<>>
    /\ Opened = 2 /\ JobClosed = 1

(***************************************************************************)
(* Properties of the transfer's output pipe (under SpecStream)             *)
(***************************************************************************)
\* C30: whenever the transfer process is blocked in a write to its full output pipe,
\* the job's next line read is possible: the job reads the pipe in both branches, so
\* the process gets to write all it has, exits, and the job leaves the transfer.
C30_OutputAlwaysConsumed ==
    blocked => ENABLED (\E line \in Lines, d \in 0..MaxGap : copy_stream_line(line, d))


(***************************************************************************)
(* The throttle over a whole job (under SpecStream)                        *)
(***************************************************************************)
\* C36: in a copy_folder job, with either method, a step writes at most one status
\* line, and a status line is written at least one second after the one before it.
C36_RendersOneSecondApart ==
    [][(kind = "folder" /\ renders' # renders) =>
         /\ renders' = renders + 1
         /\ lastRender = -1 \/ lastRender' - lastRender >= TicksPerSecond]_vars


(***************************************************************************)
(* Properties of auto_git_push's watcher (under SpecWatch)                 *)
(***************************************************************************)
DebounceTicks == DEBOUNCE_SECONDS * TicksPerSecond

\* C38 as stated: autopush() is called only when a change was detected and at least
\* DEBOUNCE_SECONDS have passed since the last detected one, and a change was detected
\* since the call before.
C38_PushOnlyAfterQuietChange ==
    [][(pushes' = pushes + 1) =>
         /\ lastDetect' >= 0
         /\ now' - lastDetect' >= DebounceTicks
         /\ changed]_vars

\* C38 amended: autopush() is called only when at least DEBOUNCE_SECONDS have passed
\* since the last detected change or, for the first call when no change was detected
\* yet, since the watcher started; never in an iteration that detects a change; and
\* between two calls a change was detected. After a call the timer is off until the
\* next detected change.
C38_PushOnlyAfterQuietPeriod ==
    /\ [][(pushes' = pushes + 1) =>
            /\ lastDetect' = lastDetect
            /\ IF lastDetect >= 0
               THEN now' - lastDetect >= DebounceTicks
               ELSE pushes = 0 /\ now' - StartClock >= DebounceTicks
            /\ pushes > 0 => changed
            /\ last_change' = Infinity]_vars
    /\ [][(lastDetect' # lastDetect) =>
            (pushes' = pushes /\ last_change' = Num(now') /\ lastDetect' = now')]_vars
    /\ [](last_change = Infinity => (pushes > 0 /\ ~changed))
    /\ [](pushes > 1 => lastDetect >= 0)
C38_Witness ==
    /\ pushes = 2 /\ lastDetect >= 0 /\ now - lastDetect >= DebounceTicks
    /\ last_change = Infinity /\ ~changed

\* The modification times of the watched files of a tree, with their multiplicities
MtimeBag(t) ==
    [m \in 1..MaxMtime |-> Cardinality({f \in Files \ Ignored : t[f] = m})]

\* C39: when the watched files' modification times, as a multiset, differ between two
\* consecutive walks, the second walk's hash differs from the first's and the
\* iteration restarts the debounce timer.
C39_EveryChangeDetected ==
    [][(wpc = "watch" /\ MtimeBag(tree') # MtimeBag(tree)) =>
         (last_hash' # last_hash /\ lastDetect' = now')]_vars

(***************************************************************************)
(* The destination of copy_folder: a job that finds its destination        *)
(* occupied, with or without a second tree under the name a rename picks.  *)
(***************************************************************************)
InitDest ==
    /\ RetryIdle
    /\ now = StartClock
    /\ kind = "folder"
    /\ pc = "start"
    /\ feed = PlainLines
    /\ destExists = TRUE
    /\ dirs \in {{DefaultName(kind)}, {DefaultName(kind), <<"foo2">>}}
    /\ prompts = 0
    /\ destName = DefaultName(kind)
    /\ speedOpt \in {"rsync", "scp"}
    /\ JobFresh
    /\ SetBarOf(NoBar)
    /\ NoBatch
NextDest ==
    \/ copy_start
    \/ \E choice \in Choices, name \in Names : check_folder_overwrite_prompt(choice, name)
    \/ \E rm_ok \in BOOLEAN : copy_resolve(rm_ok)
    \/ \E rc \in ExitCodes : run_with_retry_attempt(rc) /\ UNCHANGED <<jobVars, barVars, mainVars, sessionVars, watchVars, destVars>>
    \/ run_with_retry_exhausted /\ UNCHANGED <<jobVars, barVars, mainVars, sessionVars, watchVars, destVars>>
    \/ \E out \in SizeOutputs : copy_folder_sized(out)
    \/ copy_folder_select
    \/ \E ok \in BOOLEAN : copy_launch(ok, 0)
    \/ \E line \in BatchLines : copy_stream_line(line, 0)
    \/ copy_scp_poll(0)
    \/ scp_writes_output
    \/ \E rc \in ExitCodes : copy_transfer_end(rc)
    \/ copy_interrupt
    \/ copy_report
SpecDest == InitDest /\ [][NextDest]_vars

\* C35: a transfer is never launched into a destination directory that held content
\* when the job started, unless the user chose Overwrite and the old tree was
\* actually removed (a renamed destination that exists, or a failed removal, stops
\* the copy).
C35_NeverLaunchIntoOldTree ==
    launches > 0 => ~stale

(***************************************************************************)
(* Properties of main's session (under SpecMenu)                           *)
(***************************************************************************)
\* C37: in every reachable state of main the session counters satisfy
\* successful_operations <= session_operations, whatever the menu choices and the
\* copy outcomes, a copy action that copies several selected folders included.
C37_SuccessesWithinOperations ==
    successful_operations <= session_operations

\* C32: every session that wrote a SESSION_START record has written exactly one
\* SESSION_END record when main has returned, whichever menu the user left from.
C32_SessionEndOnEveryExit ==
    mpc = "returned" => Count(log, SessionEnd) = Count(log, SessionStart)

\* C34: a DELETE_SUCCESS record is written only after a remote delete command that
\* exited 0, and a folder is added to the folders reported as deleted only then.
DeleteSuccess == Rec("FILE_OP", "DELETE_SUCCESS", "SUCCESS")
C34_DeleteSuccessOnlyAfterExitZero ==
    [][(Count(log', DeleteSuccess) > Count(log, DeleteSuccess)
        \/ Len(deleted_folders') > Len(deleted_folders)) => (result.rc = 0)]_vars

\* What the user typed, seen as the program sees it and as it was typed
Typed_yes == answer = <<"y", "e", "s">>
Normalised_yes == Lower(Strip(answer)) = <<"y", "e", "s">>
Range(sq) == {sq[i] : i \in 1..Len(sq)}
\* A step of the copy flow that sends the rm command for the folder at the head of delq
DeletesAfterCopy == mpc = "delete" /\ mpc' = "deleting" /\ purpose = "copy"

\* C33 as stated: the copy flow deletes a remote folder only if its copy_folder call
\* returned success in the same batch and the user answered exactly 'yes'.
C33_DeleteOnlyAfterExactYes ==
    [][DeletesAfterCopy => (Head(delq) \in Range(copied_folders) /\ Typed_yes)]_vars

\* C33, amended: the copy flow deletes a remote folder only if its copy_folder call
\* returned True (transfer exit code 0) in the same batch and the answer to the delete
\* question, stripped of surrounding blanks and lowercased, is 'yes'; a folder is
\* counted as copied only when copy_folder returned True after an exit code 0, so
\* folders that were skipped, failed or lacked space are never deleted by that flow,
\* and any other answer deletes nothing.
C33_DeleteOnlyAfterNormalisedYes ==
    /\ [][DeletesAfterCopy =>
            (Head(delq) \in Range(copied_folders) /\ Normalised_yes)]_vars
    /\ [][(copied_folders' # copied_folders /\ copied_folders' # <<>>) =>
            (/\ copied_folders' = Append(copied_folders, item.name)
             /\ ret = "True" /\ exitCode = 0)]_vars
    /\ [][(mpc = "confirm" /\ ~Normalised_yes') => (mpc' = "actions" /\ delq' = delq)]_vars
C33_Witness ==
    /\ mpc = "deleting" /\ purpose = "copy"
    /\ answer = <<" ", "Y", "e", "s", " ">>
    /\ copied_folders = <<"rec_b">> /\ failed_folders = <<"rec_a">>
    /\ delq = <<"rec_b">>

\* A session in which the program keeps running and the user answers every prompt
SpecMenuLive == SpecMenu /\ WF_vars(NextMenu)

\* The records that carry a failure or skip status
FailStatus == {"FAILED", "SKIPPED", "USER_SKIP", "INSUFFICIENT_SPACE"}
Failures(sq) == Len(SelectSeq(sq, LAMBDA r : r.status \in FailStatus))
\* main waits for a menu answer; main is inside an operation
AtMenu == mpc \in {"menu", "actions"}
Busy == mpc \in {"ssh", "listing", "loop", "copying", "confirm", "delete", "deleting", "job"}

\* C31: every failure path of a copy or delete operation appends at least one record
\* with a failure or skip status in the step that handles it: the user's skip, a
\* folder larger than the free space, a transfer that exits non-zero, a copy_folder
\* that returns False to main, a remote delete that exhausted its retries, a refused SSH
\* connection and a failed folder listing. None of them ends the program:
\* main never raises, it returns only on an answer to a menu (or on the invalid name
\* before the session), and every operation leads back to a menu prompt.
C31_FailuresLoggedAndMenuReturns ==
    /\ [][(pc = "resolved" /\ IsSkip(decision) /\ pc' # pc) =>
            (Failures(log') > Failures(log) /\ ret' = "False")]_vars
    /\ [][(mpc = "loop" /\ queue # <<>> /\ queue' = Tail(queue) /\ mpc' = "loop") =>
            (Failures(log') > Failures(log)
             /\ failed_folders' = Append(failed_folders, Head(queue).name))]_vars
    /\ [][(pc = "report" /\ exitCode # 0 /\ pc' # pc) =>
            (Failures(log') > Failures(log) /\ ret' = "False")]_vars
    /\ [][(mpc = "copying" /\ pc = "done" /\ ret # "True" /\ mpc' # mpc) =>
            (Failures(log') > Failures(log) /\ mpc' = "loop")]_vars
    /\ [][(mpc = "deleting" /\ rpc = "returned" /\ result.rc # 0 /\ mpc' # mpc) =>
            (Failures(log') > Failures(log) /\ mpc' = "delete")]_vars
    /\ [][(mpc \in {"ssh", "listing"} /\ rpc = "returned" /\ result.rc # 0 /\ mpc' # mpc) =>
            (Failures(log') > Failures(log) /\ mpc' = "actions")]_vars
    /\ [](mpc # "raised" /\ pc \notin {"raised", "crashed"})
    /\ [][(mpc' = "returned" /\ mpc # "returned") => mpc \in {"begin", "menu", "actions"}]_vars
    /\ (Busy ~> AtMenu)
C31_Witness ==
    /\ mpc = "actions"
    /\ Count(log, Rec("FILE_OP", "COPY_SKIPPED", "USER_SKIP")) = 1
    /\ Count(log, Rec("FILE_OP", "COPY_SKIPPED", "INSUFFICIENT_SPACE")) = 1
    /\ Count(log, Rec("ACTION", "DELETE", "FAILED")) = 1
    /\ Count(log, Rec("ACTION", "COPY", "FAILED")) = 1

====
